---- MODULE Spec2Model ----
(***************************************************************************)
(* Portfolio accounting engine of app.py: the ledger file (carteira.csv),  *)
(* the consolidation of positions, realized profit and loss, dividend      *)
(* attribution, the normalized evolution chart with its benchmarks, and    *)
(* the price alerts (alertas.csv).                                         *)
(*                                                                         *)
(* Numbers.  The code computes in pandas float64.  The model computes in   *)
(* exact rationals <<n, d>> (d > 0, lowest terms) extended with the three  *)
(* IEEE special values a pandas division produces:                         *)
(*   <<1, 0>> = +inf,  <<-1, 0>> = -inf,  <<0, 0>> = NaN.                   *)
(* Rounding is modelled where a law of the arithmetic is at stake (the     *)
(* normalization laws and the running average cost of the replay), with    *)
(* floats of Precisao significant bits.                                    *)
(*                                                                         *)
(* Dates.  A calendar day is an integer; a pandas Timestamp is a record    *)
(* [dia, hora, tz]: wall-clock day and hour, and the time zone (Nenhum for *)
(* a timezone-naive value).                                                *)
(***************************************************************************)
EXTENDS Integers, Sequences, FiniteSets, TLC

VARIABLES
    carteira,      \* rows of carteira.csv (every user's), in file order
    dividendos,    \* yfinance: Ticker(t).dividends, per ticker
    precoAtual,    \* yfinance: latest close per ticker (NaN: no quote)
    cotacoes,      \* yfinance: daily close per symbol and day (or NaN)
    cdi,           \* BCB SGS series 12: daily rate per day (or "sem_dado")
    dados,         \* last result of calcular_dados_carteira
    grafico,       \* last result of gerar_grafico_evolucao_patrimonio
    efeitos,       \* feed calls and st.warning messages of the last computation
    desempate,     \* how this build's quicksort orders rows of equal key
    amostra,       \* a series under normalization (normalization laws only)
    replay,        \* locals of the replay loop of the chart, row by row
    sessoes,       \* two sessions inside adicionar_ativo_carteira
    alertas        \* rows of alertas.csv (every user's), in file order

vars == <<carteira, dividendos, precoAtual, cotacoes, cdi, dados, grafico,
          efeitos, desempate, amostra, replay, sessoes, alertas>>

----------------------------------------------------------------------------
(* Bounds of the model *)

MaxTx == 3          \* rows in the ledger, accounting specification
MaxTxDiv == 2       \* rows in the ledger, dividend specification
MaxTxGraf == 2      \* rows in the ledger, chart specification
MaxTxIdx == 1       \* rows in the ledger, benchmark specification
MaxDiv == 2         \* dividend events per ticker
Hoje == 4           \* pd.to_datetime('today'): the last calendar day

Datas == 1..Hoje

Tickers == {"A", "B"}

\* the accounts; usuario_logado is st.session_state's e-mail of the session
\* whose pages are modelled, the other account acts from another session
Usuarios == {"ana", "bia"}
usuario_logado == "ana"
Tipos == {"Compra", "Venda"}

Nenhum == "Nenhum"  \* Python None (a missing time zone, the 'erro' of a result)

\* a result the current page run has not computed yet
Pendente == [pendente |-> TRUE]

----------------------------------------------------------------------------
(* float64 as extended rationals *)

Abs(n) == IF n < 0 THEN -n ELSE n

Sgn(n) == IF n > 0 THEN 1 ELSE IF n < 0 THEN -1 ELSE 0

RECURSIVE GCD(_, _)
GCD(a, b) == IF b = 0 THEN a ELSE GCD(b, a % b)

Norm(n, d) ==
    IF d = 0 THEN <<Sgn(n), 0>>
    ELSE LET s == IF d < 0 THEN -1 ELSE 1
             g == GCD(Abs(n), Abs(d))
         IN  <<(s * n) \div g, (s * d) \div g>>

R(n) == <<n, 1>>

NaN == <<0, 0>>
Inf == <<1, 0>>

IsNaN(x) == x = NaN
IsFinite(x) == x[2] # 0

RMul(a, b) == Norm(a[1] * b[1], a[2] * b[2])

RNeg(a) == <<-a[1], a[2]>>

RAdd(a, b) ==
    IF IsFinite(a) /\ IsFinite(b) THEN Norm(a[1] * b[2] + b[1] * a[2], a[2] * b[2])
    ELSE IF IsNaN(a) \/ IsNaN(b) THEN NaN
    ELSE IF ~IsFinite(a) /\ ~IsFinite(b) THEN (IF a = b THEN a ELSE NaN)
    ELSE IF ~IsFinite(a) THEN a ELSE b

RSub(a, b) == RAdd(a, RNeg(b))

\* 1 / b in IEEE arithmetic (the model has no negative zero)
RInv(b) ==
    IF IsNaN(b) THEN NaN
    ELSE IF ~IsFinite(b) THEN R(0)
    ELSE IF b[1] = 0 THEN Inf
    ELSE Norm(b[2], b[1])

RDiv(a, b) == RMul(a, RInv(b))

\* a > b; any comparison with NaN is false
RGt(a, b) ==
    IF IsNaN(a) \/ IsNaN(b) THEN FALSE
    ELSE IF IsFinite(a) /\ IsFinite(b) THEN a[1] * b[2] > b[1] * a[2]
    ELSE IF ~IsFinite(a) /\ ~IsFinite(b) THEN a[1] > b[1]
    ELSE IF ~IsFinite(a) THEN a[1] > 0 ELSE b[1] < 0

RLt(a, b) == RGt(b, a)

REq(a, b) == ~IsNaN(a) /\ ~IsNaN(b) /\ a = b

----------------------------------------------------------------------------
(* Helpers standing for pandas column operations *)

\* Series.sum(): the values added left to right, NaN skipped (skipna=True),
\* 0 for an empty series
RECURSIVE SeriesSum(_)
SeriesSum(s) ==
    IF s = <<>> THEN R(0)
    ELSE IF IsNaN(Head(s)) THEN SeriesSum(Tail(s))
    ELSE RAdd(Head(s), SeriesSum(Tail(s)))

\* variant: tolist() without unique()
Unique_com_repeticao(s) == s

\* Series.unique(): the distinct values in order of first appearance
RECURSIVE Unique(_)
Unique(s) ==
    IF s = <<>> THEN <<>>
    ELSE LET init == Unique(SubSeq(s, 1, Len(s) - 1))
             x == s[Len(s)]
         IN  IF \E i \in DOMAIN init : init[i] = x THEN init ELSE Append(init, x)

\* DataFrame.sort_values('data_compra') with ties kept in frame order
RECURSIVE SortFromDay(_, _)
SortFromDay(df, d) ==
    IF d > Hoje THEN <<>>
    ELSE SelectSeq(df, LAMBDA row : row.data_compra.dia = d) \o SortFromDay(df, d + 1)

sort_values(df) == SortFromDay(df, 1)

ColTickers(df) == {df[i].ticker : i \in DOMAIN df}

----------------------------------------------------------------------------
(* The ledger file *)

\* adicionar_ativo_carteira: read the file, append one row, write the file
adicionar_ativo_carteira(df, email_usuario, ticker, quantidade, preco_compra, data_compra, tipo) ==
    Append(df, [email_usuario |-> email_usuario,
                ticker |-> ticker, quantidade |-> quantidade,
                preco_compra |-> preco_compra, data_compra |-> data_compra,
                tipo |-> tipo])

\* carregar_carteira_usuario: read_csv(parse_dates=['data_compra']) turns the
\* stored 'YYYY-MM-DD' text into a naive midnight Timestamp
Timestamp(dia, hora, tz) == [dia |-> dia, hora |-> hora, tz |-> tz]

\* variant: the rows of every user
carregar_carteira_de_todos(arquivo, email_usuario) ==
    [i \in DOMAIN arquivo |->
        [arquivo[i] EXCEPT !.data_compra = Timestamp(arquivo[i].data_compra, 0, Nenhum)]]

\* df[df["email_usuario"] == email_usuario].copy()
carregar_carteira_usuario(arquivo, email_usuario) ==
    LET df == [i \in DOMAIN arquivo |->
                  [arquivo[i] EXCEPT !.data_compra =
                                         Timestamp(arquivo[i].data_compra, 0, Nenhum)]]
    IN  SelectSeq(df, LAMBDA row : row.email_usuario = email_usuario)

\* the positions of the file that hold a row of the user
\* (df[df['email_usuario'] == email_usuario].index)
IndicesDoUsuario(df, email_usuario) ==
    {i \in DOMAIN df : df[i].email_usuario = email_usuario}

\* atualizar_ativo_carteira: overwrite the fields of one row of the user; an
\* index that is not a row of the user is refused
atualizar_ativo_carteira(df, email_usuario, index_transacao, ticker, quantidade, preco_compra, data_compra, tipo) ==
    IF index_transacao \notin IndicesDoUsuario(df, email_usuario) THEN df
    ELSE [df EXCEPT ![index_transacao] =
             [@ EXCEPT !.ticker = ticker, !.quantidade = quantidade,
                       !.preco_compra = preco_compra, !.data_compra = data_compra,
                       !.tipo = tipo]]

\* variant: no ownership test
remover_ativo_carteira_sem_dono(df, email_usuario, index_transacao) ==
    IF index_transacao \notin DOMAIN df THEN df
    ELSE SubSeq(df, 1, index_transacao - 1) \o SubSeq(df, index_transacao + 1, Len(df))

\* remover_ativo_carteira: drop one row of the user and rewrite the file
remover_ativo_carteira(df, email_usuario, index_transacao) ==
    IF index_transacao \notin IndicesDoUsuario(df, email_usuario) THEN df
    ELSE SubSeq(df, 1, index_transacao - 1) \o SubSeq(df, index_transacao + 1, Len(df))

\* Timestamp.tz_localize(None): drops the zone, keeps the wall-clock time
tz_localize_None(ts) == Timestamp(ts.dia, ts.hora, Nenhum)

\* variant: <= instead of <
TsLt_inclusivo(a, b) == a.dia < b.dia \/ (a.dia = b.dia /\ a.hora <= b.hora)

\* a < b for two timezone-naive Timestamps
TsLt(a, b) == a.dia < b.dia \/ (a.dia = b.dia /\ a.hora < b.hora)

TsLe(a, b) == TsLt(a, b) \/ (a.dia = b.dia /\ a.hora = b.hora)

----------------------------------------------------------------------------
(* _consolidar_posicao_atual *)

IsCompra(row) == row.tipo = "Compra"
IsVenda(row) == row.tipo = "Venda"

\* variant: the Compra filter is missing
compras_df_todas(carteira_df) == carteira_df

compras_df(carteira_df) == SelectSeq(carteira_df, IsCompra)

vendas_df(carteira_df) == SelectSeq(carteira_df, IsVenda)

\* the rows of one groupby('ticker') group, in frame order
Grupo(df, t) == SelectSeq(df, LAMBDA row : row.ticker = t)

Quantidades(df) == [i \in DOMAIN df |-> R(df[i].quantidade)]

\* variant: the price is not weighted by the quantity
CustoTotalIndividual_sem_peso(df) == [i \in DOMAIN df |-> R(df[i].preco_compra)]

\* compras_df['Custo Total Individual']
CustoTotalIndividual(df) ==
    [i \in DOMAIN df |-> RMul(R(df[i].quantidade), R(df[i].preco_compra))]

preco_medio_ponderado(custo_total_compras, qtd_comprada) ==
    RDiv(custo_total_compras, qtd_comprada)

\* one row per ticker that has a Compra; an empty function for no Compra
compras_agrupadas(carteira_df) ==
    LET compras == compras_df(carteira_df)
    IN  [t \in ColTickers(compras) |->
            LET qtd == SeriesSum(Quantidades(Grupo(compras, t)))
                custo == SeriesSum(CustoTotalIndividual(Grupo(compras, t)))
            IN  [qtd_comprada |-> qtd,
                 custo_total_compras |-> custo,
                 preco_medio_ponderado |-> preco_medio_ponderado(custo, qtd)]]

\* variant: qtd_vendida is the quantity of the ticker's first Venda
vendas_agrupadas_primeira(carteira_df) ==
    LET vendas == vendas_df(carteira_df)
    IN  [t \in ColTickers(vendas) |-> [qtd_vendida |-> R(Grupo(vendas, t)[1].quantidade)]]

\* variant: qtd_vendida counted per row instead of summed
vendas_agrupadas_contagem(carteira_df) ==
    LET vendas == vendas_df(carteira_df)
    IN  [t \in ColTickers(vendas) |-> [qtd_vendida |-> R(Len(Grupo(vendas, t)))]]

vendas_agrupadas(carteira_df) ==
    LET vendas == vendas_df(carteira_df)
    IN  [t \in ColTickers(vendas) |->
            [qtd_vendida |-> SeriesSum(Quantidades(Grupo(vendas, t)))]]

\* pd.merge(how='outer').fillna(0) and the quantidade_atual column
carteira_consolidada(carteira_df) ==
    LET ca == compras_agrupadas(carteira_df)
        va == vendas_agrupadas(carteira_df)
    IN  [t \in (DOMAIN ca) \cup (DOMAIN va) |->
            LET qc == IF t \in DOMAIN ca THEN ca[t].qtd_comprada ELSE R(0)
                ct == IF t \in DOMAIN ca THEN ca[t].custo_total_compras ELSE R(0)
                pm == IF t \in DOMAIN ca THEN ca[t].preco_medio_ponderado ELSE R(0)
                qv == IF t \in DOMAIN va THEN va[t].qtd_vendida ELSE R(0)
            IN  [qtd_comprada |-> qc, custo_total_compras |-> ct,
                 preco_medio_ponderado |-> pm, qtd_vendida |-> qv,
                 quantidade_atual |-> RSub(qc, qv)]]

Epsilon == <<1, 100000>>

\* variant: every consolidated ticker, whatever its quantity
posicao_atual_df_sem_filtro(carteira_df) == carteira_consolidada(carteira_df)

\* variant: a ticker is kept unless its quantity is negative
posicao_atual_df_com_zerados(carteira_df) ==
    LET cc == carteira_consolidada(carteira_df)
    IN  [t \in {u \in DOMAIN cc : ~RLt(cc[u].quantidade_atual, R(0))} |-> cc[t]]

posicao_atual_df(carteira_df) ==
    LET cc == carteira_consolidada(carteira_df)
    IN  [t \in {u \in DOMAIN cc : RGt(cc[u].quantidade_atual, Epsilon)} |-> cc[t]]

----------------------------------------------------------------------------
(* _calcular_lucro_prejuizo_realizado *)

\* merge(how='inner') of the Venda rows with the average cost of their ticker
vendas_com_custo(carteira_df, ca) ==
    SelectSeq(vendas_df(carteira_df), LAMBDA row : row.ticker \in DOMAIN ca)

\* variant: the average cost is not multiplied by the quantity sold
lucro_realizado_individual_unitario(row, ca) ==
    RSub(RMul(R(row.quantidade), R(row.preco_compra)),
         ca[row.ticker].preco_medio_ponderado)

lucro_realizado_individual(row, ca) ==
    RSub(RMul(R(row.quantidade), R(row.preco_compra)),
         RMul(R(row.quantidade), ca[row.ticker].preco_medio_ponderado))

LucrosIndividuais(carteira_df, ca) ==
    LET vc == vendas_com_custo(carteira_df, ca)
    IN  [i \in DOMAIN vc |-> lucro_realizado_individual(vc[i], ca)]

\* variant: gains and losses netted into one figure
lucros_liquidos(carteira_df, ca) == SeriesSum(LucrosIndividuais(carteira_df, ca))

lucros(carteira_df, ca) ==
    SeriesSum(SelectSeq(LucrosIndividuais(carteira_df, ca), LAMBDA x : RGt(x, R(0))))

prejuizos(carteira_df, ca) ==
    SeriesSum(SelectSeq(LucrosIndividuais(carteira_df, ca), LAMBDA x : RLt(x, R(0))))

_calcular_lucro_prejuizo_realizado(carteira_df, ca) ==
    IF vendas_df(carteira_df) = <<>> \/ DOMAIN ca = {}
    THEN [lucros |-> R(0), prejuizos |-> R(0)]
    ELSE IF vendas_com_custo(carteira_df, ca) = <<>>
    THEN [lucros |-> R(0), prejuizos |-> R(0)]
    ELSE [lucros |-> lucros(carteira_df, ca), prejuizos |-> prejuizos(carteira_df, ca)]

----------------------------------------------------------------------------
(* _calcular_dividendos_recebidos *)

\* obter_dividendos_historicos_cached: the feed's series with a timezone-aware
\* index made naive
obter_dividendos_historicos_cached(feed, ticker) ==
    [i \in DOMAIN feed[ticker] |->
        IF feed[ticker][i].data.tz # Nenhum
        THEN [feed[ticker][i] EXCEPT !.data = tz_localize_None(@)]
        ELSE feed[ticker][i]]

transacoes_antes_div(transacoes_ticker, div_date_naive) ==
    SelectSeq(transacoes_ticker, LAMBDA row : TsLt(row.data_compra, div_date_naive))

\* compras - vendas of the rows before the event (both sums are 0 when no
\* row is before it)
shares_held(antes) ==
    RSub(SeriesSum(Quantidades(compras_df(antes))),
         SeriesSum(Quantidades(vendas_df(antes))))

\* what one dividend event adds to total_dividendos
DividendoDoEvento(transacoes_ticker, div) ==
    LET antes == transacoes_antes_div(transacoes_ticker, tz_localize_None(div.data))
    IN  IF antes # <<>> /\ RGt(shares_held(antes), R(0))
        THEN RMul(shares_held(antes), R(div.valor))
        ELSE R(0)

\* the inner loop: for div_date, div_amount in dividends_hist.items()
RECURSIVE DividendosDoTicker(_, _, _)
DividendosDoTicker(transacoes_ticker, dividends_hist, total) ==
    IF dividends_hist = <<>> THEN total
    ELSE DividendosDoTicker(transacoes_ticker, Tail(dividends_hist),
             RAdd(total, DividendoDoEvento(transacoes_ticker, Head(dividends_hist))))

\* the outer loop: for ticker in all_tickers
RECURSIVE DividendosDosTickers(_, _, _, _)
DividendosDosTickers(carteira_df, feed, all_tickers, total) ==
    IF all_tickers = <<>> THEN total
    ELSE LET ticker == Head(all_tickers)
             dividends_hist == obter_dividendos_historicos_cached(feed, ticker)
             transacoes_ticker == sort_values(Grupo(carteira_df, ticker))
         IN  DividendosDosTickers(carteira_df, feed, Tail(all_tickers),
                 IF dividends_hist = <<>> THEN total
                 ELSE DividendosDoTicker(transacoes_ticker, dividends_hist, total))

_calcular_dividendos_recebidos(carteira_df, feed) ==
    DividendosDosTickers(carteira_df, feed,
        Unique([i \in DOMAIN carteira_df |-> carteira_df[i].ticker]), R(0))

----------------------------------------------------------------------------
(* calcular_dados_carteira *)

\* variant: a sum that does not skip NaN
RECURSIVE ColumnSum_sem_skipna(_, _)
ColumnSum_sem_skipna(df, col) ==
    IF DOMAIN df = {} THEN R(0)
    ELSE LET t == CHOOSE u \in DOMAIN df : TRUE
             rest == [u \in (DOMAIN df) \ {t} |-> df[u]]
         IN  RAdd(df[t][col], ColumnSum_sem_skipna(rest, col))

\* DataFrame column .sum() over the rows of a frame keyed by ticker
RECURSIVE ColumnSum(_, _)
ColumnSum(df, col) ==
    IF DOMAIN df = {} THEN R(0)
    ELSE LET t == CHOOSE u \in DOMAIN df : TRUE
             rest == [u \in (DOMAIN df) \ {t} |-> df[u]]
         IN  IF IsNaN(df[t][col]) THEN ColumnSum(rest, col)
             ELSE RAdd(df[t][col], ColumnSum(rest, col))

\* obter_preco_atual_cached: the latest close; the None it returns for a
\* ticker without quotes is NaN once mapped into the 'Preco Atual' column
obter_preco_atual_cached(feed, ticker) == feed[ticker]

\* section 3: the market columns added to posicao_atual_df
PosicaoComMercado(posicao, feed) ==
    [t \in DOMAIN posicao |->
        LET preco == obter_preco_atual_cached(feed, t)
            custo == RMul(posicao[t].quantidade_atual, posicao[t].preco_medio_ponderado)
            valor == RMul(posicao[t].quantidade_atual, preco)
        IN  [ticker |-> t,
             qtd_comprada |-> posicao[t].qtd_comprada,
             custo_total_compras |-> posicao[t].custo_total_compras,
             preco_medio_ponderado |-> posicao[t].preco_medio_ponderado,
             qtd_vendida |-> posicao[t].qtd_vendida,
             quantidade_atual |-> posicao[t].quantidade_atual,
             PrecoAtual |-> preco,
             CustoTotalPosicao |-> custo,
             ValorAtual |-> valor,
             LucroPrejuizoNaoRealizado |-> RSub(valor, custo)]]

ErroCarteiraVazia == [erro |-> "Carteira vazia"]
ErroSemTransacoes == [erro |-> "Nenhuma transacao encontrada ate a data de hoje."]

\* The rows written by adicionar_ativo_carteira always carry 'tipo', so the
\* fillna('Compra') of the preparation changes nothing.  No operation of the
\* modelled domain raises, so the except branch is not taken.
calcular_dados_carteira(arquivo, email_usuario, feedDiv, feedPreco) ==
    LET lido == carregar_carteira_usuario(arquivo, email_usuario)
        carteira_df == SelectSeq(lido,
            LAMBDA row : TsLe(row.data_compra, Timestamp(Hoje, 12, Nenhum)))
        ca == compras_agrupadas(carteira_df)
        posicao == PosicaoComMercado(posicao_atual_df(carteira_df), feedPreco)
        lp == _calcular_lucro_prejuizo_realizado(carteira_df, ca)
    IN  IF lido = <<>> THEN ErroCarteiraVazia
        ELSE IF carteira_df = <<>> THEN ErroSemTransacoes
        ELSE [posicao_atual_df |-> posicao,
              total_investido |-> ColumnSum(posicao, "CustoTotalPosicao"),
              valor_atual_total |-> ColumnSum(posicao, "ValorAtual"),
              lucro_nao_realizado_total |-> ColumnSum(posicao, "LucroPrejuizoNaoRealizado"),
              lucros_realizados_total |-> lp.lucros,
              prejuizos_realizados_total |-> lp.prejuizos,
              total_dividendos_recebidos |-> _calcular_dividendos_recebidos(carteira_df, feedDiv),
              erro |-> Nenhum]

\* one external call or message of a computation
Efeito(chamada, tickers) == [chamada |-> chamada, tickers |-> tickers]

\* the lookups calcular_dados_carteira makes and the warning it shows: none
\* before the two early returns, then the dividends of every ticker of the
\* ledger, the latest price of every ticker held, and st.warning naming the
\* held tickers without a price
EfeitosDeCalcular(arquivo, email_usuario, feedPreco) ==
    LET lido == carregar_carteira_usuario(arquivo, email_usuario)
        carteira_df == SelectSeq(lido,
            LAMBDA row : TsLe(row.data_compra, Timestamp(Hoje, 12, Nenhum)))
        posicao == posicao_atual_df(carteira_df)
        ativos_sem_preco ==
            {t \in DOMAIN posicao : IsNaN(obter_preco_atual_cached(feedPreco, t))}
    IN  IF lido = <<>> \/ carteira_df = <<>> THEN {}
        ELSE {Efeito("obter_dividendos_historicos_cached", {t}) : t \in ColTickers(carteira_df)}
             \cup {Efeito("obter_preco_atual_cached", {t}) : t \in DOMAIN posicao}
             \cup (IF ativos_sem_preco = {} THEN {}
                   ELSE {Efeito("st.warning", ativos_sem_preco)})

----------------------------------------------------------------------------
(* Date-indexed series and frames                                          *)
(* A Series is a function from its index (a set of days) to values; a      *)
(* DataFrame is a function from its column names to Series on one index.   *)

MinDia(S) == CHOOSE d \in S : \A e \in S : d <= e
MaxDia(S) == CHOOSE d \in S : \A e \in S : e <= d

\* Series.iloc[0]
iloc0(serie) == serie[MinDia(DOMAIN serie)]

\* Series.ffill(): a NaN takes the last valid value before it, if any
ffill(serie) ==
    [d \in DOMAIN serie |->
        LET antes == {e \in DOMAIN serie : e <= d /\ ~IsNaN(serie[e])}
        IN  IF antes = {} THEN NaN ELSE serie[MaxDia(antes)]]

\* Series.bfill(): a NaN takes the next valid value after it, if any
bfill(serie) ==
    [d \in DOMAIN serie |->
        LET depois == {e \in DOMAIN serie : e >= d /\ ~IsNaN(serie[e])}
        IN  IF depois = {} THEN NaN ELSE serie[MinDia(depois)]]

\* Series.reindex(index, method='ffill'): each new label takes the value at
\* the last old label not after it (NaN when there is none)
reindex_ffill(serie, index) ==
    [d \in index |->
        LET antes == {e \in DOMAIN serie : e <= d}
        IN  IF antes = {} THEN NaN ELSE serie[MaxDia(antes)]]

fillna0(serie) == [d \in DOMAIN serie |-> IF IsNaN(serie[d]) THEN R(0) ELSE serie[d]]

\* DataFrame.sum(axis=1) at one row: the columns added, NaN skipped
RECURSIVE RowSum(_, _, _)
RowSum(df, cols, d) ==
    IF cols = {} THEN R(0)
    ELSE LET c == CHOOSE x \in cols : TRUE
         IN  IF IsNaN(df[c][d]) THEN RowSum(df, cols \ {c}, d)
             ELSE RAdd(df[c][d], RowSum(df, cols \ {c}, d))

\* 100 * (serie / serie.iloc[0])
Base100(serie) == [d \in DOMAIN serie |-> RMul(R(100), RDiv(serie[d], iloc0(serie)))]

AllNaN(serie) == \A d \in DOMAIN serie : IsNaN(serie[d])

----------------------------------------------------------------------------
(* The price and rate feeds *)

\* yf.download(symbols, start, end): the closes of the days of [start, end)
\* on which at least one of the symbols has a quote
\* variant: a row for every calendar day of the range, quoted or not
yf_download_calendario(cot, symbols, start, end) ==
    [sym \in symbols |-> [d \in {e \in Datas : start <= e /\ e < end} |-> cot[sym][d]]]

yf_download(cot, symbols, start, end) ==
    LET index == {d \in Datas : /\ start <= d /\ d < end
                                /\ \E sym \in symbols : ~IsNaN(cot[sym][d])}
    IN  [sym \in symbols |-> [d \in index |-> cot[sym][d]]]

FrameIndex(df) == IF DOMAIN df = {} THEN {} ELSE DOMAIN df[CHOOSE c \in DOMAIN df : TRUE]

\* cdi_df['fator'].cumprod() at day d
RECURSIVE cumprod(_, _)
cumprod(fator, d) ==
    LET antes == {e \in DOMAIN fator : e < d}
    IN  IF antes = {} THEN fator[d] ELSE RMul(cumprod(fator, MaxDia(antes)), fator[d])

\* obter_dados_cdi: the daily rates of [start, end] compounded and rebased to
\* 100 at the first day the bank published; an empty Series for no data
obter_dados_cdi(feed, start_date, end_date) ==
    LET dias == {d \in Datas : start_date <= d /\ d <= end_date /\ ~IsNaN(feed[d])}
        fator == [d \in dias |-> RAdd(R(1), RDiv(feed[d], R(100)))]
        cdi_acumulado == [d \in dias |-> cumprod(fator, d)]
    IN  IF dias = {} THEN <<>> ELSE Base100(cdi_acumulado)

INDICES_TICKERS ==
    [indice \in {"IBOV", "S&P 500 (SPX)"} |-> IF indice = "IBOV" THEN "^BVSP" ELSE "^GSPC"]

----------------------------------------------------------------------------
(* gerar_grafico_evolucao_patrimonio *)

\* sort_values(by='data_compra') uses quicksort, which is not stable: rows of
\* the same day may come out in any order
OrdenacoesPorData(df) ==
    {[i \in DOMAIN df |-> df[perm[i]]] :
        perm \in {f \in [DOMAIN df -> DOMAIN df] :
                    /\ \A i, j \in DOMAIN df : i # j => f[i] # f[j]
                    /\ \A i, j \in DOMAIN df :
                          i < j => df[f[i]].data_compra.dia <= df[f[j]].data_compra.dia}}

\* df.loc[data_transacao:, ticker] += valor, with the addition of the
\* arithmetic in use
SomaDesdeCom(df, ticker, data_transacao, valor, Add(_, _)) ==
    [df EXCEPT ![ticker] = [d \in DOMAIN @ |->
        IF d >= data_transacao THEN Add(@[d], valor) ELSE @[d]]]

SomaDesde(df, ticker, data_transacao, valor) ==
    SomaDesdeCom(df, ticker, data_transacao, valor, RAdd)

\* (custo_total_ticker[ticker] / qtd_total_ticker[ticker])
\*     if qtd_total_ticker[ticker] > 0 else 0
preco_medio_antes_venda(e, ticker, Div(_, _)) ==
    IF RGt(e.qtd_total_ticker[ticker], R(0))
    THEN Div(e.custo_total_ticker[ticker], e.qtd_total_ticker[ticker])
    ELSE R(0)

\* quantidade * preco_medio_antes_venda
custo_a_remover(e, row, Mul(_, _), Div(_, _)) ==
    Mul(R(row.quantidade), preco_medio_antes_venda(e, row.ticker, Div))

\* one pass of the loop over transacoes_df.iterrows(), in the arithmetic
\* given by its four operations
AplicarTransacaoCom(e, row, Mul(_, _), Div(_, _), Add(_, _), Sub(_, _)) ==
    LET ticker == row.ticker
        quantidade == R(row.quantidade)
        data_transacao == row.data_compra.dia
        custo_a_adicionar == Mul(quantidade, R(row.preco_compra))
        remover == custo_a_remover(e, row, Mul, Div)
    IN  IF row.tipo = "Compra"
        THEN [posicao_df |->
                  SomaDesdeCom(e.posicao_df, ticker, data_transacao, quantidade, Add),
              custo_acumulado_df |->
                  SomaDesdeCom(e.custo_acumulado_df, ticker, data_transacao,
                               custo_a_adicionar, Add),
              custo_total_ticker |->
                  [e.custo_total_ticker EXCEPT ![ticker] = Add(@, custo_a_adicionar)],
              qtd_total_ticker |-> [e.qtd_total_ticker EXCEPT ![ticker] = Add(@, quantidade)]]
        ELSE [posicao_df |->
                  SomaDesdeCom(e.posicao_df, ticker, data_transacao, quantidade, Sub),
              custo_acumulado_df |->
                  SomaDesdeCom(e.custo_acumulado_df, ticker, data_transacao, remover, Sub),
              custo_total_ticker |->
                  [e.custo_total_ticker EXCEPT ![ticker] = Sub(@, remover)],
              qtd_total_ticker |-> [e.qtd_total_ticker EXCEPT ![ticker] = Sub(@, quantidade)]]

\* the loop's pass in exact arithmetic
AplicarTransacao(e, row) == AplicarTransacaoCom(e, row, RMul, RDiv, RAdd, RSub)

RECURSIVE Replay(_, _)
Replay(e, transacoes_df) ==
    IF transacoes_df = <<>> THEN e
    ELSE Replay(AplicarTransacao(e, Head(transacoes_df)), Tail(transacoes_df))

\* the zero frames over datas_range and the zero running totals
ReplayInicial(tickers, start_date, end_date) ==
    [posicao_df |-> [t \in tickers |-> [d \in start_date..end_date |-> R(0)]],
     custo_acumulado_df |-> [t \in tickers |-> [d \in start_date..end_date |-> R(0)]],
     custo_total_ticker |-> [t \in tickers |-> R(0)],
     qtd_total_ticker |-> [t \in tickers |-> R(0)]]

\* evolucao_df before the row filter: 'Patrimonio' and 'Custo Total' on the
\* index of the prices
Evolucao(transacoes_df, precos_hist, start_date, end_date) ==
    LET tickers == ColTickers(transacoes_df)
        index == FrameIndex(precos_hist)
        fim == Replay(ReplayInicial(tickers, start_date, end_date), transacoes_df)
        posicao == [t \in tickers |-> fillna0(reindex_ffill(fim.posicao_df[t], index))]
        custo == [t \in tickers |-> fillna0(reindex_ffill(fim.custo_acumulado_df[t], index))]
        patrimonio_df == [t \in tickers |->
                             [d \in index |-> RMul(posicao[t][d], precos_hist[t][d])]]
    IN  [Patrimonio |-> [d \in index |-> RowSum(patrimonio_df, tickers, d)],
         CustoTotal |-> [d \in index |-> RowSum(custo, tickers, d)]]

\* variant: the values of the previous chart survive and are added in
FiltrarPositivos_acumulando(ev) ==
    LET index == {d \in DOMAIN ev.Patrimonio :
                     RGt(RowSum(ev, {"Patrimonio", "CustoTotal"}, d), R(0))}
        anterior(d) ==
            IF "evolucao_df" \in DOMAIN grafico /\ d \in DOMAIN grafico.evolucao_df.Patrimonio
            THEN grafico.evolucao_df.Patrimonio[d]
            ELSE R(0)
    IN  [Patrimonio |-> [d \in index |-> RAdd(ev.Patrimonio[d], anterior(d))],
         CustoTotal |-> [d \in index |-> ev.CustoTotal[d]]]

\* evolucao_df[evolucao_df.sum(axis=1) > 0]
FiltrarPositivos(ev) ==
    LET index == {d \in DOMAIN ev.Patrimonio :
                     RGt(RowSum(ev, {"Patrimonio", "CustoTotal"}, d), R(0))}
    IN  [Patrimonio |-> [d \in index |-> ev.Patrimonio[d]],
         CustoTotal |-> [d \in index |-> ev.CustoTotal[d]]]

\* the columns of the portfolio and of its cost
ColunasDaCarteira(ev) ==
    LET carteira_col == [c \in {"Minha Carteira"} |-> Base100(ev.Patrimonio)]
    IN  IF RGt(iloc0(ev.CustoTotal), R(0))
        THEN [c \in {"Minha Carteira", "Custo Total (Normalizado)"} |->
                 IF c = "Minha Carteira" THEN Base100(ev.Patrimonio)
                 ELSE Base100(ev.CustoTotal)]
        ELSE carteira_col

ComColuna(df, nome, serie) ==
    [c \in (DOMAIN df) \cup {nome} |-> IF c = nome THEN serie ELSE df[c]]

\* one pass of the loop over indices_selecionados
AdicionarIndice(df, index, indice, cot, cdiFeed, start_date, end_date) ==
    IF indice = "CDI"
    THEN LET dados_indice == obter_dados_cdi(cdiFeed, start_date, end_date)
         IN  IF DOMAIN dados_indice # {}
             THEN ComColuna(df, indice, reindex_ffill(dados_indice, index))
             ELSE df
    ELSE IF indice \notin DOMAIN INDICES_TICKERS THEN df
    ELSE LET ticker == INDICES_TICKERS[indice]
             dados_completo == yf_download(cot, {ticker}, start_date, end_date)
             dados_indice_series == dados_completo[ticker]
             dados_indice_reindexed == bfill(reindex_ffill(dados_indice_series, index))
         IN  IF DOMAIN dados_indice_series = {} THEN df
             ELSE IF \/ DOMAIN dados_indice_reindexed = {}
                     \/ REq(iloc0(dados_indice_reindexed), R(0))
                     \/ IsNaN(iloc0(dados_indice_reindexed))
             THEN df
             ELSE ComColuna(df, indice, Base100(dados_indice_reindexed))

RECURSIVE AdicionarIndices(_, _, _, _, _, _, _)
AdicionarIndices(df, index, indices, cot, cdiFeed, start_date, end_date) ==
    IF indices = <<>> THEN df
    ELSE AdicionarIndices(
             AdicionarIndice(df, index, Head(indices), cot, cdiFeed, start_date, end_date),
             index, Tail(indices), cot, cdiFeed, start_date, end_date)

\* df_comparativo.dropna(how='all', axis=1)
dropna_all(df) == [c \in {x \in DOMAIN df : ~AllNaN(df[x])} |-> df[c]]

SemGrafico == [none |-> TRUE]

\* transacoes_df: the ledger after sort_values.  The result keeps, next to
\* the figure's columns, the evolucao_df they were normalized from.
gerar_grafico_evolucao_patrimonio(transacoes_df, cot, cdiFeed, indices_selecionados) ==
    IF transacoes_df = <<>> THEN SemGrafico
    ELSE
    LET start_date == MinDia({transacoes_df[i].data_compra.dia : i \in DOMAIN transacoes_df})
        end_date == Hoje
        tickers == ColTickers(transacoes_df)
        precos_hist_raw == yf_download(cot, tickers, start_date, end_date)
        precos_hist == [t \in tickers |-> ffill(precos_hist_raw[t])]
        evolucao_df == FiltrarPositivos(
                           Evolucao(transacoes_df, precos_hist, start_date, end_date))
        index == DOMAIN evolucao_df.Patrimonio
    IN  IF start_date > end_date THEN SemGrafico
        ELSE IF FrameIndex(precos_hist_raw) = {} THEN SemGrafico
        ELSE IF index = {} THEN SemGrafico
        ELSE [fig |-> dropna_all(AdicionarIndices(ColunasDaCarteira(evolucao_df), index,
                          indices_selecionados, cot, cdiFeed, start_date, end_date)),
              evolucao_df |-> evolucao_df,
              indices_selecionados |-> indices_selecionados]

\* the downloads gerar_grafico_evolucao_patrimonio makes and the warnings it
\* shows: none for an empty ledger, else the prices of the ledger's tickers
\* and, when the evolution is not empty, one lookup per selected benchmark
\* and a warning per ticker benchmark that could not be normalized
EfeitosDoGrafico(transacoes_df, cot, cdiFeed, indices_selecionados) ==
    IF transacoes_df = <<>> THEN {}
    ELSE
    LET start_date == MinDia({transacoes_df[i].data_compra.dia : i \in DOMAIN transacoes_df})
        end_date == Hoje
        tickers == ColTickers(transacoes_df)
        resultado == gerar_grafico_evolucao_patrimonio(
                         transacoes_df, cot, cdiFeed, indices_selecionados)
        pedidos == {indices_selecionados[k] : k \in DOMAIN indices_selecionados}
        comparativo ==
            AdicionarIndices(ColunasDaCarteira(resultado.evolucao_df),
                             DOMAIN resultado.evolucao_df.Patrimonio,
                             indices_selecionados, cot, cdiFeed, start_date, end_date)
    IN  IF start_date > end_date THEN {}
        ELSE {Efeito("yf.download", tickers)} \cup
             (IF resultado = SemGrafico THEN {}
              ELSE {Efeito("obter_dados_cdi", {}) : i \in pedidos \cap {"CDI"}}
                   \cup {Efeito("yf.download", {INDICES_TICKERS[i]}) :
                            i \in pedidos \cap DOMAIN INDICES_TICKERS}
                   \cup {Efeito("st.warning", {i}) :
                            i \in (pedidos \cap DOMAIN INDICES_TICKERS) \ DOMAIN comparativo})

----------------------------------------------------------------------------
(* Inputs *)

\* (quantidade, preco_compra, data_compra) typed into form_add_ativo
Ordens == {<<10, 10, 1>>, <<10, 20, 2>>, <<5, 25, 3>>}

\* Ticker(t).dividends: ex-dates ascending, stamped in the exchange's zone
FusoDoTicker(t) == IF t = "A" THEN "America/Sao_Paulo" ELSE Nenhum

EventosDividendo(t) ==
    {[data |-> Timestamp(2, 0, FusoDoTicker(t)), valor |-> 2],
     [data |-> Timestamp(3, 0, FusoDoTicker(t)), valor |-> 1],
     [data |-> Timestamp(4, 0, FusoDoTicker(t)), valor |-> 2]}

SeriesDividendos(t) ==
    {s \in UNION {[1..k -> EventosDividendo(t)] : k \in 0..MaxDiv} :
        \A i \in 1..(Len(s) - 1) : s[i].data.dia < s[i + 1].data.dia}

FeedsDividendos ==
    {f \in [Tickers -> SeriesDividendos("A") \cup SeriesDividendos("B")] :
        /\ \A t \in Tickers : f[t] \in SeriesDividendos(t)
        /\ Len(f["B"]) <= 1}

FeedDividendosFixo ==
    [t \in Tickers |->
        IF t = "A" THEN <<[data |-> Timestamp(3, 0, FusoDoTicker(t)), valor |-> 1]>>
        ELSE <<>>]

FeedsPrecoAtual ==
    {[t \in Tickers |-> R(20)], [t \in Tickers |-> IF t = "B" THEN NaN ELSE R(20)]}

FeedPrecoAtualFixo == [t \in Tickers |-> R(20)]

\* the symbols quoted by the price feed: the assets and the benchmark tickers
Simbolos == Tickers \cup {"^BVSP", "^GSPC"}

PrecoBase(sym, d) ==
    CASE sym = "A" -> 10 * d
      [] sym = "B" -> IF d <= 2 THEN 20 ELSE 40
      [] sym = "^BVSP" -> 100 * d
      [] OTHER -> 50

\* the days a symbol is quoted on: every day, from the second day on, every
\* day but the second, never; "zero" quotes every day and 0 on the first
Formas == {"todos", "tarde", "feriado", "nada"}

SerieDeCotacoes(sym, forma) ==
    [d \in Datas |->
        CASE forma = "todos" -> R(PrecoBase(sym, d))
          [] forma = "tarde" -> IF d >= 2 THEN R(PrecoBase(sym, d)) ELSE NaN
          [] forma = "feriado" -> IF d # 2 THEN R(PrecoBase(sym, d)) ELSE NaN
          [] forma = "zero" -> IF d = 1 THEN R(0) ELSE R(PrecoBase(sym, d))
          [] OTHER -> NaN]

Mundo(a, b, ibov, spx) ==
    [sym \in Simbolos |->
        SerieDeCotacoes(sym, CASE sym = "A" -> a [] sym = "B" -> b
                               [] sym = "^BVSP" -> ibov [] OTHER -> spx)]

CotacoesFixas == Mundo("todos", "todos", "todos", "todos")

CotacoesGrafico == {Mundo(a, b, "todos", "todos") : a \in Formas, b \in Formas}

CotacoesIndices ==
    {Mundo(a, "todos", ibov, spx) :
        a \in {"todos", "tarde", "feriado"},
        ibov \in {"todos", "tarde", "nada", "zero"},
        spx \in {"todos", "nada"}}

\* the daily CDI rate (percent) the central bank publishes, NaN for a day
\* without a published rate
TaxasCDI(forma) ==
    [d \in Datas |->
        CASE forma = "todos" -> R(25)
          [] forma = "tarde" -> IF d >= 2 THEN R(25) ELSE NaN
          [] OTHER -> NaN]

FeedsCDI == {TaxasCDI(forma) : forma \in {"todos", "tarde", "nada"}}

\* st.session_state.dashboard_selected_indices
Indices == <<"CDI", "IBOV", "S&P 500 (SPX)">>

Selecoes ==
    {SelectSeq(Indices, LAMBDA x : x \in S) : S \in SUBSET {"CDI", "IBOV", "S&P 500 (SPX)"}}

----------------------------------------------------------------------------
(* Operations *)

\* the feeds, which no operation of the application changes
Feeds == <<dividendos, precoAtual, cotacoes, cdi, desempate>>

\* st.rerun() after a change of the ledger discards everything the session
\* rendered from the old ledger; the pages of another session stay as they are
PaginaApos(email_usuario) ==
    IF email_usuario = usuario_logado
    THEN dados' = Pendente /\ grafico' = Pendente /\ efeitos' = {}
    ELSE UNCHANGED <<dados, grafico, efeitos>>

\* form_add_ativo of pagina_carteira: the row is appended to the file
AdicionarAtivoDe(usuarios, tickers, ordens, max) ==
    /\ Len(carteira) < max
    /\ \E email_usuario \in usuarios, ticker \in tickers, tipo \in Tipos, o \in ordens :
          /\ carteira' = adicionar_ativo_carteira(
                             carteira, email_usuario, ticker, o[1], o[2], o[3], tipo)
          /\ PaginaApos(email_usuario)
    /\ UNCHANGED <<Feeds, amostra, replay, sessoes, alertas>>

AdicionarAtivo(tickers, max) == AdicionarAtivoDe({usuario_logado}, tickers, Ordens, max)

AdicionarAtivoContabil == AdicionarAtivo(Tickers, MaxTx)

AdicionarAtivoDividendos == AdicionarAtivo(Tickers, MaxTxDiv)

AdicionarAtivoGrafico == AdicionarAtivo(Tickers, MaxTxGraf)

AdicionarAtivoIndices == AdicionarAtivo({"A"}, MaxTxIdx)

\* variant: the computation writes the frame it loaded back to the file
CalcularDadosCarteira_gravando ==
    /\ dados = Pendente
    /\ dados' = calcular_dados_carteira(carteira, usuario_logado, dividendos, precoAtual)
    /\ efeitos' = EfeitosDeCalcular(carteira, usuario_logado, precoAtual)
    /\ carteira' = SelectSeq(carteira, LAMBDA row : row.email_usuario = usuario_logado)
    /\ UNCHANGED <<Feeds, grafico, amostra, replay, sessoes, alertas>>

\* a page run calls calcular_dados_carteira on the ledger as it is now
CalcularDadosCarteira ==
    /\ dados = Pendente
    /\ dados' = calcular_dados_carteira(carteira, usuario_logado, dividendos, precoAtual)
    /\ efeitos' = EfeitosDeCalcular(carteira, usuario_logado, precoAtual)
    /\ UNCHANGED <<carteira, Feeds, grafico, amostra, replay, sessoes, alertas>>

\* sort_values(by='data_compra') of this build: rows of equal date stay in
\* file order or come out in reverse file order
Desempates == {"ordem do arquivo", "ordem inversa"}

OrdenarPorData(df) ==
    CHOOSE ord \in OrdenacoesPorData(df) :
        \E perm \in [DOMAIN df -> DOMAIN df] :
            /\ \A i \in DOMAIN df : ord[i] = df[perm[i]]
            /\ \A i, j \in DOMAIN df : i # j => perm[i] # perm[j]
            /\ \A i, j \in DOMAIN df :
                  (i < j /\ df[perm[i]].data_compra.dia = df[perm[j]].data_compra.dia) =>
                      IF desempate = "ordem do arquivo" THEN perm[i] < perm[j]
                      ELSE perm[i] > perm[j]

InitComum ==
    /\ carteira = <<>>
    /\ dados = Pendente
    /\ grafico = Pendente
    /\ efeitos = {}
    /\ amostra = Pendente
    /\ replay = Pendente
    /\ sessoes = Pendente
    /\ alertas = <<>>

\* accounting: consolidation, realized result, market totals
Init ==
    /\ InitComum
    /\ dividendos = FeedDividendosFixo
    /\ precoAtual \in FeedsPrecoAtual
    /\ cotacoes = CotacoesFixas
    /\ cdi = TaxasCDI("todos")
    /\ desempate = "ordem do arquivo"

Next == AdicionarAtivoContabil \/ CalcularDadosCarteira

Spec == Init /\ [][Next]_vars

\* dividend attribution against every dividend feed
InitDividendos ==
    /\ InitComum
    /\ dividendos \in FeedsDividendos
    /\ precoAtual = FeedPrecoAtualFixo
    /\ cotacoes = CotacoesFixas
    /\ cdi = TaxasCDI("todos")
    /\ desempate = "ordem do arquivo"

NextDividendos == AdicionarAtivoDividendos \/ CalcularDadosCarteira

SpecDividendos == InitDividendos /\ [][NextDividendos]_vars

\* the dashboard draws the chart of the ledger as it is now
DesenharGrafico(selecoes) ==
    /\ \E indices_selecionados \in selecoes :
          LET transacoes_df ==
                  OrdenarPorData(carregar_carteira_usuario(carteira, usuario_logado))
          IN  /\ grafico' = gerar_grafico_evolucao_patrimonio(
                                transacoes_df, cotacoes, cdi, indices_selecionados)
              /\ efeitos' = EfeitosDoGrafico(
                                transacoes_df, cotacoes, cdi, indices_selecionados)
    /\ UNCHANGED <<carteira, Feeds, dados, amostra, replay, sessoes, alertas>>

GerarGrafico(selecoes) == grafico = Pendente /\ DesenharGrafico(selecoes)

\* a later run of the dashboard, on the same ledger, draws the chart again
GerarGraficoDeNovo == grafico # Pendente /\ DesenharGrafico({<<>>})

GerarGraficoSemIndices == GerarGrafico({<<>>})

GerarGraficoComIndices == GerarGrafico(Selecoes)

\* the chart of the portfolio against every price feed
InitGrafico ==
    /\ InitComum
    /\ dividendos = FeedDividendosFixo
    /\ precoAtual = FeedPrecoAtualFixo
    /\ cotacoes \in CotacoesGrafico
    /\ cdi = TaxasCDI("todos")
    /\ desempate \in Desempates

NextGrafico == AdicionarAtivoGrafico \/ GerarGraficoSemIndices \/ GerarGraficoDeNovo

SpecGrafico == InitGrafico /\ [][NextGrafico]_vars

\* the benchmarks of the chart against every benchmark feed
InitIndices ==
    /\ InitComum
    /\ dividendos = FeedDividendosFixo
    /\ precoAtual = FeedPrecoAtualFixo
    /\ cotacoes \in CotacoesIndices
    /\ cdi \in FeedsCDI
    /\ desempate \in Desempates

NextIndices == AdicionarAtivoIndices \/ GerarGraficoComIndices

SpecIndices == InitIndices /\ [][NextIndices]_vars

\* the ledger file shared by two accounts
MaxTxDonos == 2     \* rows in the file, two-account specification

OrdensDonos == {<<10, 10, 1>>, <<5, 25, 3>>}

AdicionarAtivoDonos == AdicionarAtivoDe(Usuarios, {"A"}, OrdensDonos, MaxTxDonos)

\* form_edit_ativo: the index is the one the page stored when it was
\* rendered, so it may point at any row of the file as it is now
AtualizarAtivoDe(email_usuario) ==
    /\ \E index_transacao \in 1..MaxTxDonos, tipo \in Tipos, o \in OrdensDonos :
          carteira' = atualizar_ativo_carteira(
                          carteira, email_usuario, index_transacao, "A", o[1], o[2], o[3], tipo)
    /\ PaginaApos(email_usuario)
    /\ UNCHANGED <<Feeds, amostra, replay, sessoes, alertas>>

AtualizarAtivo == \E email_usuario \in Usuarios : AtualizarAtivoDe(email_usuario)

\* the delete button of 'Gerenciar Transacoes Individuais'
RemoverAtivoDe(email_usuario) ==
    /\ \E index_transacao \in 1..MaxTxDonos :
          carteira' = remover_ativo_carteira(carteira, email_usuario, index_transacao)
    /\ PaginaApos(email_usuario)
    /\ UNCHANGED <<Feeds, amostra, replay, sessoes, alertas>>

RemoverAtivo == \E email_usuario \in Usuarios : RemoverAtivoDe(email_usuario)

InitDonos ==
    /\ InitComum
    /\ dividendos = FeedDividendosFixo
    /\ precoAtual = FeedPrecoAtualFixo
    /\ cotacoes = CotacoesFixas
    /\ cdi = TaxasCDI("todos")
    /\ desempate = "ordem do arquivo"

NextDonos ==
    \/ AdicionarAtivoDonos
    \/ AtualizarAtivo
    \/ RemoverAtivo
    \/ CalcularDadosCarteira
    \/ GerarGraficoSemIndices

SpecDonos == InitDonos /\ [][NextDonos]_vars

\* Binary floating point.  float64 rounds the result of every operation to
\* 53 significant bits; the laws of normalization are checked with the same
\* rounding (to nearest, ties to even, no exponent limit) to Precisao bits.
Precisao == 5       \* significant bits of a float
MaxSerie == 3       \* dates of a series under normalization
MaxEscala == 5      \* the constants are 1..MaxEscala and their inverses

RECURSIVE Pot2(_)
Pot2(k) == IF k = 0 THEN 1 ELSE 2 * Pot2(k - 1)

\* the float nearest to the positive fraction a / d
RECURSIVE ArredondarPositivo(_, _)
ArredondarPositivo(a, d) ==
    IF a >= d * Pot2(Precisao) THEN RMul(R(2), ArredondarPositivo(a, 2 * d))
    ELSE IF a < d * Pot2(Precisao - 1) THEN RDiv(ArredondarPositivo(2 * a, d), R(2))
    ELSE LET q == a \div d
             r == a % d
         IN  IF 2 * r > d \/ (2 * r = d /\ q % 2 = 1) THEN R(q + 1) ELSE R(q)

Arredondar(x) ==
    IF ~IsFinite(x) \/ x[1] = 0 THEN x
    ELSE IF x[1] > 0 THEN ArredondarPositivo(x[1], x[2])
    ELSE RNeg(ArredondarPositivo(0 - x[1], x[2]))

FMul(a, b) == Arredondar(RMul(a, b))
FDiv(a, b) == Arredondar(RDiv(a, b))
FAdd(a, b) == Arredondar(RAdd(a, b))
FSub(a, b) == Arredondar(RSub(a, b))

\* variant: rebased by a shift, 100 + (serie - serie.iloc[0])
Base100Float_aditivo(serie) ==
    [d \in DOMAIN serie |-> FAdd(R(100), FSub(serie[d], iloc0(serie)))]

\* 100 * (serie / serie.iloc[0]) as the floats compute it
Base100Float(serie) ==
    [d \in DOMAIN serie |-> FMul(R(100), FDiv(serie[d], iloc0(serie)))]

\* the values of a series and the positive constants, all of them floats
Valores == {R(0), R(1), R(3), R(5), R(7), R(-2), NaN}

Escalas ==
    {R(k) : k \in 1..MaxEscala} \cup {Arredondar(RInv(R(k))) : k \in 1..MaxEscala}

Amostras ==
    {[v |-> v, c |-> c, de_v |-> <<>>, de_cv |-> <<>>] :
        v \in UNION {[1..n -> Valores] : n \in 1..MaxSerie}, c \in Escalas}

\* the series multiplied by a constant
Escalar(c, serie) == [d \in DOMAIN serie |-> FMul(c, serie[d])]

\* the normalization of lines 1038, 1043 and 1097 applied to a series and to
\* the same series multiplied by a positive constant
Normalizar ==
    /\ amostra.de_v = <<>>
    /\ amostra' = [amostra EXCEPT !.de_v = Base100Float(amostra.v),
                                  !.de_cv = Base100Float(Escalar(amostra.c, amostra.v))]
    /\ UNCHANGED <<carteira, Feeds, dados, grafico, efeitos, replay, sessoes, alertas>>

InitNormalizacao ==
    /\ carteira = <<>>
    /\ dados = Pendente
    /\ grafico = Pendente
    /\ efeitos = {}
    /\ amostra \in Amostras
    /\ replay = Pendente
    /\ sessoes = Pendente
    /\ alertas = <<>>
    /\ dividendos = FeedDividendosFixo
    /\ precoAtual = FeedPrecoAtualFixo
    /\ cotacoes = CotacoesFixas
    /\ cdi = TaxasCDI("todos")
    /\ desempate = "ordem do arquivo"

NextNormalizacao == Normalizar

SpecNormalizacao == InitNormalizacao /\ [][NextNormalizacao]_vars

----------------------------------------------------------------------------
(* The replay loop of gerar_grafico_evolucao_patrimonio, one row at a time, *)
(* as float64 computes it.  Quantities and prices of this specification    *)
(* are whole numbers small enough for the floats to hold their sums and    *)
(* products exactly, so rounding enters at the division of the running     *)
(* average cost and at what is computed from it, as it does in float64.    *)

MaxReplay == 3      \* rows in the ledger, replay specification

\* (quantidade, preco_compra, data_compra)
OrdensReplay == {<<1, 1, 1>>, <<2, 3, 2>>}

LinhasReplay ==
    {[email_usuario |-> usuario_logado, ticker |-> t, quantidade |-> o[1],
      preco_compra |-> o[2], data_compra |-> o[3], tipo |-> tipo] :
        t \in Tickers, o \in OrdensReplay, tipo \in Tipos}

LivrosReplay == UNION {[1..n -> LinhasReplay] : n \in 0..MaxReplay}

\* variant: a row takes effect from the first day of the range, whatever its
\* date
AplicarTransacaoFloat_desde_o_inicio(e, row) ==
    AplicarTransacaoCom(e, [row EXCEPT !.data_compra = Timestamp(0, 0, Nenhum)],
                        FMul, FDiv, FAdd, FSub)

\* variant: a Venda takes its cost off at its own price, not at the running
\* average cost
AplicarTransacaoFloat_ao_preco_da_venda(e, row) ==
    AplicarTransacaoCom(e, row, FMul, LAMBDA a, b : R(row.preco_compra), FAdd, FSub)

\* variant: a Venda takes nothing off the cost
AplicarTransacaoFloat_sem_baixa(e, row) ==
    AplicarTransacaoCom(e, row, FMul, LAMBDA a, b : R(0), FAdd, FSub)

\* the loop's pass as the floats compute it
AplicarTransacaoFloat(e, row) == AplicarTransacaoCom(e, row, FMul, FDiv, FAdd, FSub)

\* lines 943-1001: the ledger is loaded and sorted, the prices downloaded,
\* the frames and running totals created at zero
IniciarReplay ==
    /\ replay = Pendente
    /\ LET lido == carregar_carteira_usuario(carteira, usuario_logado)
           transacoes_df == OrdenarPorData(lido)
           start_date == MinDia({lido[i].data_compra.dia : i \in DOMAIN lido})
           tickers == ColTickers(lido)
       IN  /\ lido # <<>>
           /\ start_date <= Hoje
           /\ FrameIndex(yf_download(cotacoes, tickers, start_date, Hoje)) # {}
           /\ replay' = [transacoes_df |-> transacoes_df,
                         i |-> 0,
                         e |-> ReplayInicial(tickers, start_date, Hoje),
                         removidos |-> <<>>]
    /\ UNCHANGED <<carteira, Feeds, dados, grafico, efeitos, amostra, sessoes, alertas>>

\* lines 1003-1022: the next row of transacoes_df is applied; removidos keeps
\* the custo_a_remover of each Venda (0 for a Compra)
PassoReplay ==
    /\ replay # Pendente
    /\ replay.i < Len(replay.transacoes_df)
    /\ LET row == replay.transacoes_df[replay.i + 1]
       IN  replay' = [transacoes_df |-> replay.transacoes_df,
                      i |-> replay.i + 1,
                      e |-> AplicarTransacaoFloat(replay.e, row),
                      removidos |-> Append(replay.removidos,
                          IF row.tipo = "Compra" THEN R(0)
                          ELSE custo_a_remover(replay.e, row, FMul, FDiv))]
    /\ UNCHANGED <<carteira, Feeds, dados, grafico, efeitos, amostra, sessoes, alertas>>

InitReplayDe(livros) ==
    /\ carteira \in livros
    /\ dados = Pendente
    /\ grafico = Pendente
    /\ efeitos = {}
    /\ amostra = Pendente
    /\ replay = Pendente
    /\ sessoes = Pendente
    /\ alertas = <<>>
    /\ dividendos = FeedDividendosFixo
    /\ precoAtual = FeedPrecoAtualFixo
    /\ cotacoes = CotacoesFixas
    /\ cdi = TaxasCDI("todos")
    /\ desempate \in Desempates

InitReplay == InitReplayDe(LivrosReplay)

NextReplay == IniciarReplay \/ PassoReplay

SpecReplay == InitReplay /\ [][NextReplay]_vars

\* The same loop on quantities whose sums the floats round, as float64
\* rounds 0.1 + 0.05: with Precisao bits 17 + 16 is not a float.
OrdensArredondadas == {<<17, 1, 1>>, <<1, 1, 1>>, <<16, 1, 2>>}

LivrosArredondados ==
    UNION {[1..n -> {[email_usuario |-> usuario_logado, ticker |-> "A",
                      quantidade |-> o[1], preco_compra |-> o[2],
                      data_compra |-> o[3], tipo |-> tipo] :
                         o \in OrdensArredondadas, tipo \in Tipos}] : n \in 0..MaxReplay}

InitQuantidades == InitReplayDe(LivrosArredondados)

SpecQuantidades == InitQuantidades /\ [][NextReplay]_vars

----------------------------------------------------------------------------
(* Reference values, computed directly on the integers of the ledger file *)

RECURSIVE SomaInt(_)
SomaInt(s) == IF s = <<>> THEN 0 ELSE Head(s) + SomaInt(Tail(s))

TemCompra(arq, t) == \E i \in DOMAIN arq : arq[i].ticker = t /\ arq[i].tipo = "Compra"

\* sum of quantity over the Compra rows of t
QtdComprada(arq, t) ==
    SomaInt([i \in DOMAIN arq |->
        IF arq[i].ticker = t /\ arq[i].tipo = "Compra" THEN arq[i].quantidade ELSE 0])

QtdVendida(arq, t) ==
    SomaInt([i \in DOMAIN arq |->
        IF arq[i].ticker = t /\ arq[i].tipo = "Venda" THEN arq[i].quantidade ELSE 0])

\* sum of quantity * unit price over the Compra rows of t
CustoComprado(arq, t) ==
    SomaInt([i \in DOMAIN arq |->
        IF arq[i].ticker = t /\ arq[i].tipo = "Compra"
        THEN arq[i].quantidade * arq[i].preco_compra ELSE 0])

\* x is the fraction n / d
EhFracao(x, n, d) == x[2] > 0 /\ x[1] * d = n * x[2]

SemLinha(arq, i) == SubSeq(arq, 1, i - 1) \o SubSeq(arq, i + 1, Len(arq))

Calculado == dados # Pendente /\ dados.erro = Nenhum

\* gain of the Venda in row i against the all-time average cost of its ticker,
\* 0 for a ticker without Compra
GanhoEsperado(arq, i) ==
    IF ~TemCompra(arq, arq[i].ticker) THEN R(0)
    ELSE RSub(R(arq[i].quantidade * arq[i].preco_compra),
              RDiv(R(arq[i].quantidade * CustoComprado(arq, arq[i].ticker)),
                   R(QtdComprada(arq, arq[i].ticker))))

GanhosEsperados(arq) ==
    [i \in DOMAIN arq |-> IF arq[i].tipo = "Venda" THEN GanhoEsperado(arq, i) ELSE R(0)]

----------------------------------------------------------------------------
(* Claims *)

\* C1: a Venda never changes the weighted average cost of its ticker.  For
\* every row i of the ledger that is a Venda of a ticker with a Compra, the
\* preco_medio_ponderado (and the buy totals) consolidated from the ledger
\* equal those consolidated from the ledger without row i; quantidade_atual
\* drops by the quantity sold, and a held ticker's 'Custo Total Posicao' is
\* quantidade_atual * preco_medio_ponderado.
C1_VendaNaoMudaPrecoMedio ==
    Calculado =>
    /\ \A i \in DOMAIN carteira :
        (carteira[i].tipo = "Venda" /\ TemCompra(carteira, carteira[i].ticker)) =>
            LET t == carteira[i].ticker
                com == carteira_consolidada(carregar_carteira_usuario(carteira, usuario_logado))
                sem == carteira_consolidada(carregar_carteira_usuario(SemLinha(carteira, i), usuario_logado))
            IN  /\ com[t].preco_medio_ponderado = sem[t].preco_medio_ponderado
                /\ com[t].qtd_comprada = sem[t].qtd_comprada
                /\ com[t].custo_total_compras = sem[t].custo_total_compras
                /\ com[t].quantidade_atual =
                       RSub(sem[t].quantidade_atual, R(carteira[i].quantidade))
    /\ \A t \in DOMAIN dados.posicao_atual_df :
            LET linha == dados.posicao_atual_df[t]
            IN  /\ EhFracao(linha.preco_medio_ponderado,
                            CustoComprado(carteira, t), QtdComprada(carteira, t))
                /\ linha.CustoTotalPosicao =
                       RMul(linha.quantidade_atual, linha.preco_medio_ponderado)

C1_Witness ==
    /\ Calculado
    /\ \E i \in DOMAIN carteira :
        /\ carteira[i].tipo = "Venda"
        /\ carteira[i].ticker \in DOMAIN dados.posicao_atual_df
        /\ carteira[i].preco_compra * QtdComprada(carteira, carteira[i].ticker)
               # CustoComprado(carteira, carteira[i].ticker)

SoCompras == \A i \in DOMAIN carteira : carteira[i].tipo = "Compra"

C3_CustoMedioDeTodoOLivro ==
    Calculado =>
        LET df == carregar_carteira_usuario(carteira, usuario_logado)
            ca == compras_agrupadas(df)
        IN  /\ \A i \in DOMAIN df :
                (df[i].tipo = "Venda" /\ TemCompra(carteira, df[i].ticker)) =>
                    lucro_realizado_individual(df[i], ca) = GanhoEsperado(carteira, i)
            /\ RAdd(dados.lucros_realizados_total, dados.prejuizos_realizados_total)
                   = SeriesSum(GanhosEsperados(carteira))

\* a Venda that stands before a Compra of its ticker, bought at another price
C3_Witness ==
    /\ Calculado
    /\ \E i, j, k \in DOMAIN carteira :
        /\ i < j
        /\ carteira[i].tipo = "Venda" /\ carteira[j].tipo = "Compra"
        /\ carteira[k].tipo = "Compra"
        /\ carteira[i].ticker = carteira[j].ticker
        /\ carteira[k].ticker = carteira[j].ticker
        /\ carteira[k].data_compra < carteira[i].data_compra
        /\ carteira[i].data_compra < carteira[j].data_compra
        /\ carteira[k].preco_compra # carteira[j].preco_compra
    /\ dados.lucros_realizados_total # R(0)

Positivos(s) == [i \in DOMAIN s |-> IF RGt(s[i], R(0)) THEN s[i] ELSE R(0)]
Negativos(s) == [i \in DOMAIN s |-> IF RLt(s[i], R(0)) THEN s[i] ELSE R(0)]

\* C4: the realized totals are reported separately: lucros is the sum of the
\* positive gains and is >= 0, prejuizos is the sum of the negative gains and
\* is <= 0, and lucros + prejuizos is the sum of the gain of every Venda.
C4_LucrosEPrejuizosSeparados ==
    Calculado =>
        LET ganhos == GanhosEsperados(carteira)
        IN  /\ ~RLt(dados.lucros_realizados_total, R(0))
            /\ ~RGt(dados.prejuizos_realizados_total, R(0))
            /\ dados.lucros_realizados_total = SeriesSum(Positivos(ganhos))
            /\ dados.prejuizos_realizados_total = SeriesSum(Negativos(ganhos))
            /\ RAdd(dados.lucros_realizados_total, dados.prejuizos_realizados_total)
                   = SeriesSum(ganhos)

\* a ledger with a gain and a loss
C4_Witness ==
    /\ Calculado
    /\ RGt(dados.lucros_realizados_total, R(0))
    /\ RLt(dados.prejuizos_realizados_total, R(0))

Cenario ==
    <<[email_usuario |-> usuario_logado,
       ticker |-> "A", quantidade |-> 10, preco_compra |-> 10, data_compra |-> 1,
       tipo |-> "Compra"],
      [email_usuario |-> usuario_logado,
       ticker |-> "A", quantidade |-> 10, preco_compra |-> 20, data_compra |-> 2,
       tipo |-> "Compra"],
      [email_usuario |-> usuario_logado,
       ticker |-> "A", quantidade |-> 5, preco_compra |-> 25, data_compra |-> 3,
       tipo |-> "Venda"]>>

\* C7: for the ledger [Compra 10 @ 10 on day 1, Compra 10 @ 20 on day 2,
\* Venda 5 @ 25 on day 3] of one ticker the result is an average cost of 15,
\* a realized gain of 50, no realized loss and 15 shares held.
C7_Cenario ==
    (Calculado /\ carteira = Cenario) =>
        /\ DOMAIN dados.posicao_atual_df = {"A"}
        /\ dados.posicao_atual_df["A"].preco_medio_ponderado = R(15)
        /\ dados.posicao_atual_df["A"].quantidade_atual = R(15)
        /\ dados.lucros_realizados_total = R(50)
        /\ dados.prejuizos_realizados_total = R(0)

C7_Witness == Calculado /\ carteira = Cenario

\* the ticker's rows as _calcular_dividendos_recebidos sees them
TransacoesTicker(arq, t) == sort_values(Grupo(carregar_carteira_usuario(arq, usuario_logado), t))

\* the shares the engine entitles to the event e, from the ledger file arq
AcoesNoEvento(arq, t, e) ==
    shares_held(transacoes_antes_div(TransacoesTicker(arq, t), tz_localize_None(e.data)))

Sinal(row) == IF row.tipo = "Compra" THEN 1 ELSE -1

\* sum of the amounts of the events of hist whose ex-date is after day d
RECURSIVE ValorApos(_, _)
ValorApos(hist, d) ==
    IF hist = <<>> THEN 0
    ELSE (IF Head(hist).data.dia > d THEN Head(hist).valor ELSE 0) + ValorApos(Tail(hist), d)

\* C5: the cut-off of dividend attribution is strict.  For every dividend
\* event of a ticker, a row of that ticker dated on the ex-date (Compra or
\* Venda) leaves the entitled shares as they are without the row, and a row
\* dated one day before changes them by its full quantity (+ for a Compra,
\* - for a Venda); a ledger of one Compra earns quantity * amount for exactly
\* the events whose ex-date is after the trade date.
C5_CorteEstritoNaDataEx ==
    Calculado =>
        /\ \A i \in DOMAIN carteira :
            \A k \in DOMAIN dividendos[carteira[i].ticker] :
                LET t == carteira[i].ticker
                    e == dividendos[t][k]
                    com == AcoesNoEvento(carteira, t, e)
                    sem == AcoesNoEvento(SemLinha(carteira, i), t, e)
                IN  /\ carteira[i].data_compra = e.data.dia => com = sem
                    /\ carteira[i].data_compra = e.data.dia - 1 =>
                          com = RAdd(sem, R(Sinal(carteira[i]) * carteira[i].quantidade))
        /\ (Len(carteira) = 1 /\ carteira[1].tipo = "Compra") =>
              dados.total_dividendos_recebidos =
                  R(carteira[1].quantidade
                      * ValorApos(dividendos[carteira[1].ticker], carteira[1].data_compra))

\* a Compra on the ex-date and a Compra the day before: only the second earns
C5_Witness ==
    /\ Calculado
    /\ \E i, j \in DOMAIN carteira :
        /\ carteira[i].tipo = "Compra" /\ carteira[j].tipo = "Compra"
        /\ carteira[i].ticker = carteira[j].ticker
        /\ Len(dividendos[carteira[i].ticker]) = 1
        /\ dividendos[carteira[i].ticker][1].data.tz # Nenhum
        /\ carteira[i].data_compra = dividendos[carteira[i].ticker][1].data.dia
        /\ carteira[j].data_compra = dividendos[carteira[i].ticker][1].data.dia - 1
        /\ dados.total_dividendos_recebidos =
               R(carteira[j].quantidade * dividendos[carteira[i].ticker][1].valor)

\* Compras minus Vendas of t traded before day d
AcoesAntes(arq, t, d) ==
    SomaInt([i \in DOMAIN arq |->
        IF arq[i].ticker = t /\ arq[i].data_compra < d
        THEN Sinal(arq[i]) * arq[i].quantidade ELSE 0])

DividendoEsperadoTicker(arq, hist, t) ==
    SomaInt([k \in DOMAIN hist |->
        IF AcoesAntes(arq, t, hist[k].data.dia) > 0
        THEN AcoesAntes(arq, t, hist[k].data.dia) * hist[k].valor ELSE 0])

RECURSIVE DividendoEsperado(_, _, _)
DividendoEsperado(arq, feed, S) ==
    IF S = {} THEN 0
    ELSE LET t == CHOOSE u \in S : TRUE
         IN  DividendoEsperadoTicker(arq, feed[t], t) + DividendoEsperado(arq, feed, S \ {t})

\* C6: total dividend income is the sum, over the tickers of the ledger and
\* the dividend events of each, of shares_held * amount where shares_held is
\* Compras minus Vendas of the ticker traded before the ex-date, an event
\* counting only when shares_held > 0 (so a ticker with no row before any of
\* its ex-dates adds nothing).
C6_TotalDeDividendos ==
    Calculado =>
        dados.total_dividendos_recebidos =
            R(DividendoEsperado(carteira, dividendos, ColTickers(carteira)))

\* Compras of 10 and 10 before a dividend of 1 per share give 20
C6_Witness ==
    /\ Calculado
    /\ Len(carteira) = 2
    /\ \A i \in DOMAIN carteira :
        /\ carteira[i].ticker = "A" /\ carteira[i].tipo = "Compra"
        /\ carteira[i].quantidade = 10
    /\ carteira[1].data_compra = 1 /\ carteira[2].data_compra = 2
    /\ Len(dividendos["A"]) = 1
    /\ dividendos["A"][1].data.dia = 3 /\ dividendos["A"][1].valor = 1
    /\ dados.total_dividendos_recebidos = R(20)

----------------------------------------------------------------------------
(* Claims about the chart *)

TemGrafico == grafico # Pendente /\ grafico # SemGrafico

\* the comparison index and its first date
IndiceDoGrafico == DOMAIN grafico.evolucao_df.Patrimonio
PrimeiraData == MinDia(IndiceDoGrafico)

\* serie is base rescaled so that its first value is 100
EhBase100De(serie, base) ==
    /\ DOMAIN serie = DOMAIN base
    /\ serie[MinDia(DOMAIN base)] = R(100)
    /\ \A d \in DOMAIN base :
          /\ IsFinite(serie[d])
          /\ base[MinDia(DOMAIN base)][1] # 0
          /\ EhFracao(serie[d], 100 * base[d][1] * base[MinDia(DOMAIN base)][2],
                      base[d][2] * base[MinDia(DOMAIN base)][1])

\* C8 (as claimed): every portfolio and cost series in the bundle is rescaled
\* so that its first in-range value is exactly 100 and every later value is
\* 100 * v(t) / v(t0), with no division by a zero first value.
C8_CarteiraECustoBase100 ==
    TemGrafico =>
        /\ "Minha Carteira" \in DOMAIN grafico.fig =>
              EhBase100De(grafico.fig["Minha Carteira"], grafico.evolucao_df.Patrimonio)
        /\ "Custo Total (Normalizado)" \in DOMAIN grafico.fig =>
              EhBase100De(grafico.fig["Custo Total (Normalizado)"],
                          grafico.evolucao_df.CustoTotal)

DataInicial == MinDia({carteira[i].data_compra : i \in DOMAIN carteira})

\* the days of [start_date, today] with a published CDI rate
DiasCDI == {d \in Datas : DataInicial <= d /\ d <= Hoje /\ ~IsNaN(cdi[d])}

\* the days of [start_date, today) with a quote of the benchmark's ticker
DiasIndice(indice) ==
    {d \in Datas : DataInicial <= d /\ d < Hoje /\ ~IsNaN(cotacoes[INDICES_TICKERS[indice]][d])}

\* the feed day whose value the benchmark shows on day d of the comparison
\* index: the last feed day not after d (forward-fill), 0 when there is none
DiaAlinhado(dias, d) ==
    IF {e \in dias : e <= d} = {} THEN 0 ELSE MaxDia({e \in dias : e <= d})

\* the feed is empty on the range, or the value aligned to the first date of
\* the comparison index is missing or zero
NaoNormalizavel(indice) ==
    IF indice = "CDI"
    THEN DiasCDI = {} \/ DiaAlinhado(DiasCDI, PrimeiraData) = 0
    ELSE \/ DiasIndice(indice) = {}
         \/ \A d \in IndiceDoGrafico : DiaAlinhado(DiasIndice(indice), d) = 0
         \/ LET comValor == {d \in IndiceDoGrafico : DiaAlinhado(DiasIndice(indice), d) # 0}
            IN  comValor # {} /\
                cotacoes[INDICES_TICKERS[indice]]
                    [DiaAlinhado(DiasIndice(indice), MinDia(comValor))] = R(0)

Pedidos == {grafico.indices_selecionados[k] : k \in DOMAIN grafico.indices_selecionados}

\* C9 (as claimed): a requested benchmark (CDI included) whose feed is empty
\* or whose first value aligned to the portfolio's date index is zero or
\* missing is left out of the bundle, no benchmark series with NaN or
\* infinite values is emitted, and the portfolio series and every other
\* requested benchmark are still there.
C9_IndiceInvalidoOmitido ==
    TemGrafico =>
        /\ "Minha Carteira" \in DOMAIN grafico.fig
        /\ \A indice \in Pedidos :
            /\ NaoNormalizavel(indice) => indice \notin DOMAIN grafico.fig
            /\ ~NaoNormalizavel(indice) => indice \in DOMAIN grafico.fig
            /\ indice \in DOMAIN grafico.fig =>
                  \A d \in IndiceDoGrafico : IsFinite(grafico.fig[indice][d])

\* C10 (as claimed): every benchmark in the comparison, CDI and ticker-based
\* alike, is normalized against its own first value on the portfolio's date
\* index: it is 100 on the first date of the comparison index.
C10_IndiceBase100NaPrimeiraData ==
    TemGrafico =>
        \A indice \in Pedidos :
            indice \in DOMAIN grafico.fig =>
                grafico.fig[indice][PrimeiraData] = R(100)

----------------------------------------------------------------------------
(* Claims about the error conditions *)

MaxLivro == 2       \* rows of the ledgers a result is compared against

\* the rows form_add_ativo can write for the logged-in user
Linhas ==
    {[email_usuario |-> usuario_logado, ticker |-> t, quantidade |-> o[1],
      preco_compra |-> o[2], data_compra |-> o[3], tipo |-> tipo] :
        t \in Tickers, o \in Ordens, tipo \in Tipos}

\* the ledgers of at most MaxLivro rows
Livros == UNION {[1..n -> Linhas] : n \in 0..MaxLivro}

TemVenda(arq) == \E i \in DOMAIN arq : arq[i].tipo = "Venda"

\* some Venda of the ledger is of a ticker without any Compra
SemBaseDeCusto(arq) ==
    \E i \in DOMAIN arq : arq[i].tipo = "Venda" /\ ~TemCompra(arq, arq[i].ticker)

\* C11 (as claimed): when a ticker has a Venda but no Compra the realized
\* gain is reported as unavailable: from the result of
\* calcular_dados_carteira the caller can tell a ledger with a Venda that has
\* no cost basis from every ledger whose Vendas all have one (a ledger whose
\* Vendas realize a gain of exactly 0 among them).
C11_SemBaseDeCustoDistinguivel ==
    (Calculado /\ SemBaseDeCusto(carteira)) =>
        \A arq \in Livros :
            (TemVenda(arq) /\ ~SemBaseDeCusto(arq)) =>
                calcular_dados_carteira(arq, usuario_logado, dividendos, precoAtual) # dados

\* the tickers with a Venda and without any Compra
TickersSemBase(arq) ==
    {t \in Tickers : ~TemCompra(arq, t) /\ \E i \in DOMAIN arq :
                                              arq[i].ticker = t /\ arq[i].tipo = "Venda"}

SemTicker(arq, t) == SelectSeq(arq, LAMBDA row : row.ticker # t)

\* C12: a ticker with Vendas and no Compra adds nothing to the realized gains
\* nor to the realized losses and is not in the holdings: the two totals are
\* the sums of the positive and of the negative gains of the other tickers'
\* Vendas, and totals and holdings equal those of the ledger without the
\* ticker's rows.
C12_SemBaseContribuiZero ==
    Calculado =>
        \A t \in TickersSemBase(carteira) :
            LET resto == SemTicker(carteira, t)
                sem == calcular_dados_carteira(resto, usuario_logado, dividendos, precoAtual)
            IN  /\ t \notin DOMAIN dados.posicao_atual_df
                /\ dados.lucros_realizados_total =
                       SeriesSum(Positivos(GanhosEsperados(resto)))
                /\ dados.prejuizos_realizados_total =
                       SeriesSum(Negativos(GanhosEsperados(resto)))
                /\ IF resto = <<>>
                   THEN DOMAIN dados.posicao_atual_df = {}
                   ELSE /\ dados.lucros_realizados_total = sem.lucros_realizados_total
                        /\ dados.prejuizos_realizados_total = sem.prejuizos_realizados_total
                        /\ dados.posicao_atual_df = sem.posicao_atual_df

\* a ticker sold without ever being bought, next to a realized gain of
\* another ticker
C12_Witness ==
    /\ Calculado
    /\ TickersSemBase(carteira) # {}
    /\ RGt(dados.lucros_realizados_total, R(0))

\* row j takes effect before row i: an earlier date, or the same date and an
\* earlier place in the ledger
Antes(arq, j, i) ==
    \/ arq[j].data_compra < arq[i].data_compra
    \/ (arq[j].data_compra = arq[i].data_compra /\ j < i)

\* shares of the ticker of row i held when row i takes effect
AcoesAoVender(arq, i) ==
    SomaInt([j \in DOMAIN arq |->
        IF arq[j].ticker = arq[i].ticker /\ Antes(arq, j, i)
        THEN (IF arq[j].tipo = "Compra" THEN arq[j].quantidade ELSE 0 - arq[j].quantidade)
        ELSE 0])

\* some Venda sells more than the shares held at that point
VendaADescoberto(arq) ==
    \E i \in DOMAIN arq : arq[i].tipo = "Venda" /\ arq[i].quantidade > AcoesAoVender(arq, i)

\* posicao_df after the replay of the ledger over [start_date, today]
PosicaoDiaria(arq) ==
    LET transacoes_df == OrdenarPorData(carregar_carteira_usuario(arq, usuario_logado))
        start_date == MinDia({arq[i].data_compra : i \in DOMAIN arq})
    IN  Replay(ReplayInicial(ColTickers(transacoes_df), start_date, Hoje),
               transacoes_df).posicao_df

\* C13 (as claimed): a Venda of more shares than are held at that point is
\* surfaced to the caller as an oversell condition in the result of the
\* portfolio computation (the result differs from the result of every ledger
\* without oversell), and it leaves no negative share count in the holdings
\* nor in the daily position series.
C13_VendaADescobertoSinalizada ==
    (Calculado /\ VendaADescoberto(carteira)) =>
        /\ \A arq \in Livros :
              (arq # <<>> /\ ~VendaADescoberto(arq)) =>
                  calcular_dados_carteira(arq, usuario_logado, dividendos, precoAtual) # dados
        /\ \A t \in DOMAIN dados.posicao_atual_df :
              ~RLt(dados.posicao_atual_df[t].quantidade_atual, R(0))
        /\ \A t \in DOMAIN PosicaoDiaria(carteira) :
              \A d \in DOMAIN PosicaoDiaria(carteira)[t] :
                  ~RLt(PosicaoDiaria(carteira)[t][d], R(0))

\* the except branch of calcular_dados_carteira
ErroDadosIndisponiveis ==
    [erro |-> "Dados indisponiveis no momento, tente novamente mais tarde."]

SemTransacoes == carregar_carteira_usuario(carteira, usuario_logado) = <<>>

\* C14: for a user without transactions calcular_dados_carteira returns the
\* empty-portfolio marker, which has no totals and differs from the generic
\* data-unavailable error, gerar_grafico_evolucao_patrimonio returns no
\* series, and neither calls a price, dividend or rate feed.
C14_CarteiraVazia ==
    SemTransacoes =>
        /\ dados # Pendente =>
              /\ dados = ErroCarteiraVazia
              /\ dados # ErroDadosIndisponiveis
              /\ DOMAIN dados = {"erro"}
        /\ grafico # Pendente => grafico = SemGrafico
        /\ efeitos = {}

\* both computations have run for a user without rows in a file that holds
\* rows of the other user
C14_Witness ==
    /\ SemTransacoes
    /\ carteira # <<>>
    /\ dados # Pendente
    /\ grafico # Pendente

----------------------------------------------------------------------------
(* Claims about the reconstruction *)

\* the price feed has no quote of any ticker of the ledger on any day of
\* [first transaction date, today]
SemCotacoes ==
    \A i \in DOMAIN carteira :
        \A d \in DataInicial..Hoje : IsNaN(cotacoes[carteira[i].ticker][d])

\* C15: when the price feed has no data for the requested range the chart
\* of a non-empty ledger is 'no series' (None), never a zero-filled series.
C15_SemCotacoesSemSerie ==
    (grafico # Pendente /\ carteira # <<>> /\ SemCotacoes) => grafico = SemGrafico

\* the chart was asked for a ledger with a Compra whose ticker has no quote
C15_Witness ==
    /\ grafico # Pendente
    /\ SemCotacoes
    /\ \E i \in DOMAIN carteira : carteira[i].tipo = "Compra"

----------------------------------------------------------------------------
(* Claims about the market totals *)

\* the held tickers for which the latest-price lookup returns nothing
AtivosSemPreco == {t \in DOMAIN dados.posicao_atual_df : IsNaN(precoAtual[t])}

\* shares of t held, from the integers of the ledger
QtdAtual(arq, t) == QtdComprada(arq, t) - QtdVendida(arq, t)

\* market value of a held and priced ticker, 0 for any other
ValorDeMercado(t) ==
    IF t \in DOMAIN dados.posicao_atual_df /\ t \notin AtivosSemPreco
    THEN RMul(R(QtdAtual(carteira, t)), precoAtual[t])
    ELSE R(0)

\* unrealized result of a held and priced ticker, 0 for any other
ResultadoNaoRealizado(t) ==
    IF t \in DOMAIN dados.posicao_atual_df /\ t \notin AtivosSemPreco
    THEN RSub(ValorDeMercado(t),
              RDiv(R(QtdAtual(carteira, t) * CustoComprado(carteira, t)),
                   R(QtdComprada(carteira, t))))
    ELSE R(0)

\* C16: a held ticker without a latest price adds nothing to
\* valor_atual_total nor to lucro_nao_realizado_total, the warning names
\* exactly the held tickers without a price, and the two totals are the sums
\* over the held tickers that have a price.
C16_SemPrecoForaDosTotais ==
    Calculado =>
        /\ dados.valor_atual_total = RAdd(ValorDeMercado("A"), ValorDeMercado("B"))
        /\ dados.lucro_nao_realizado_total =
               RAdd(ResultadoNaoRealizado("A"), ResultadoNaoRealizado("B"))
        /\ AtivosSemPreco # {} => Efeito("st.warning", AtivosSemPreco) \in efeitos
        /\ \A e \in efeitos : e.chamada = "st.warning" => e.tickers = AtivosSemPreco

\* two tickers held, one with a price and one without
C16_Witness ==
    /\ Calculado
    /\ DOMAIN dados.posicao_atual_df = {"A", "B"}
    /\ AtivosSemPreco = {"B"}
    /\ RGt(dados.valor_atual_total, R(0))

----------------------------------------------------------------------------
(* Claims about the ledger file and its accounts *)

\* C17: calcular_dados_carteira and gerar_grafico_evolucao_patrimonio never
\* change the ledger file: after either call the file holds the same rows, in
\* the same order and with the same field values, as before.
C17_LivroNaoMutado ==
    [][(CalcularDadosCarteira \/ GerarGraficoSemIndices) => carteira' = carteira]_vars

\* both computations have run on a file that holds rows of the two users
C17_Witness ==
    /\ dados # Pendente /\ dados.erro = Nenhum
    /\ grafico # Pendente
    /\ \E i \in DOMAIN carteira : carteira[i].email_usuario # usuario_logado
    /\ \E i \in DOMAIN carteira : carteira[i].email_usuario = usuario_logado

\* everything the engine computes for the logged-in user from a ledger
\* file: holdings, totals, realized result, dividends and the chart
SaidasDoUsuario(arquivo) ==
    <<calcular_dados_carteira(arquivo, usuario_logado, dividendos, precoAtual),
      gerar_grafico_evolucao_patrimonio(
          OrdenarPorData(carregar_carteira_usuario(arquivo, usuario_logado)),
          cotacoes, cdi, <<>>)>>

\* the files an addition, an edit or a removal made from the session of
\* another user can leave
ArquivosAposOutroUsuario ==
    UNION {
        {adicionar_ativo_carteira(carteira, email_usuario, "A", o[1], o[2], o[3], tipo) :
            o \in OrdensDonos, tipo \in Tipos}
        \cup {atualizar_ativo_carteira(
                  carteira, email_usuario, p[1], "A", p[2][1], p[2][2], p[2][3], p[3]) :
                p \in (1..MaxTxDonos) \X OrdensDonos \X Tipos}
        \cup {remover_ativo_carteira(carteira, email_usuario, index_transacao) :
                index_transacao \in 1..MaxTxDonos} :
        email_usuario \in Usuarios \ {usuario_logado}}

\* C18: the users are independent: an addition, an edit or a removal of
\* another user's transaction leaves every output computed for the user
\* (holdings, realized gains and losses, total dividends, daily series)
\* unchanged.
C18_UsuariosIndependentes ==
    \A arquivo \in ArquivosAposOutroUsuario :
        SaidasDoUsuario(arquivo) = SaidasDoUsuario(carteira)

\* the user's outputs are a portfolio and a chart while a row of another
\* user stands before the user's row in the file
C18_Witness ==
    /\ dados # Pendente /\ dados.erro = Nenhum
    /\ TemGrafico
    /\ \E i, j \in DOMAIN carteira :
          /\ i < j
          /\ carteira[i].email_usuario # usuario_logado
          /\ carteira[j].email_usuario = usuario_logado

----------------------------------------------------------------------------
(* Algebraic laws *)

Normalizada == amostra # Pendente /\ amostra.de_v # <<>>

\* C20 (as claimed): normalization is scale-invariant: for every series v
\* whose first value is not zero and every positive constant c, the
\* normalization of c * v is the same series as the normalization of v.
C20_NormalizacaoInvarianteDeEscala ==
    (Normalizada /\ ~REq(amostra.v[1], R(0))) => amostra.de_cv = amostra.de_v

\* c is a power of two: 1, 2, 4, ... or 1/2, 1/4, ...
PotenciaDeDois(c) ==
    \E k \in 0..MaxEscala : c = R(Pot2(k)) \/ c = RInv(R(Pot2(k)))

\* a and b differ by at most a few roundings: |a - b| <= 8 * 2^-Precisao * |a|
Proximos(a, b) ==
    IF IsFinite(a) /\ IsFinite(b)
    THEN LET dif == RSub(a, b)
             escalada == RMul(R(Pot2(Precisao)), IF dif[1] < 0 THEN RNeg(dif) ELSE dif)
             limite == RMul(R(8), IF a[1] < 0 THEN RNeg(a) ELSE a)
         IN  ~RGt(escalada, limite)
    ELSE a = b

\* C20 (amended): for a series v whose first value is not zero and a positive
\* constant c, the normalization of c * v equals the normalization of v up
\* to the rounding of the floating-point operations, and is the same series
\* when c is a power of two (the multiplication by c is then exact).
C20_InvarianteAMenosDoArredondamento ==
    (Normalizada /\ ~REq(amostra.v[1], R(0))) =>
        /\ DOMAIN amostra.de_cv = DOMAIN amostra.de_v
        /\ \A d \in DOMAIN amostra.de_v : Proximos(amostra.de_v[d], amostra.de_cv[d])
        /\ PotenciaDeDois(amostra.c) => amostra.de_cv = amostra.de_v

\* a series that starts at a number other than 0, moves afterwards, and was
\* multiplied by a constant that is not a power of two: its normalization
\* differs in the rounding from the normalization of the product
C20_Witness ==
    /\ Normalizada
    /\ ~PotenciaDeDois(amostra.c)
    /\ IsFinite(amostra.v[1]) /\ ~REq(amostra.v[1], R(0))
    /\ amostra.de_v[1] = R(100)
    /\ amostra.de_cv # amostra.de_v

----------------------------------------------------------------------------
(* Claims about holdings, replay and concurrency *)

\* shares of t held according to the whole ledger: bought less sold
QtdMantida(arq, t) == QtdComprada(arq, t) - QtdVendida(arq, t)

\* the tickers held above the threshold of 0.00001 share
TickersMantidos(arq) == {t \in Tickers : QtdMantida(arq, t) * Epsilon[2] > Epsilon[1]}

RECURSIVE SomaTickers(_, _)
SomaTickers(f, S) ==
    IF S = {} THEN R(0)
    ELSE LET t == CHOOSE x \in S : TRUE
         IN  RAdd(f[t], SomaTickers(f, S \ {t}))

\* quantity held times the all-time average cost, per held ticker
CustoDaPosicao(arq) ==
    [t \in TickersMantidos(arq) |->
        RDiv(R(QtdMantida(arq, t) * CustoComprado(arq, t)), R(QtdComprada(arq, t)))]

\* C25: the holdings are exactly the tickers whose quantity bought less sold
\* exceeds 0.00001; a ticker at or below it (fully sold or oversold) is not in
\* the holdings and adds nothing to total_investido, yet its buy statistics
\* (quantity bought, cost, weighted average cost) are still produced by the
\* consolidation and its Vendas still count in the realized totals.
C25_PosicaoAcimaDoEpsilon ==
    Calculado =>
        LET carteira_df == carregar_carteira_usuario(carteira, usuario_logado)
            ca == compras_agrupadas(carteira_df)
        IN  /\ DOMAIN dados.posicao_atual_df = TickersMantidos(carteira)
            /\ dados.total_investido =
                   SomaTickers(CustoDaPosicao(carteira), TickersMantidos(carteira))
            /\ \A t \in Tickers \ TickersMantidos(carteira) :
                  TemCompra(carteira, t) =>
                      /\ t \in DOMAIN ca
                      /\ ca[t].qtd_comprada = R(QtdComprada(carteira, t))
                      /\ ca[t].custo_total_compras = R(CustoComprado(carteira, t))
                      /\ EhFracao(ca[t].preco_medio_ponderado,
                                  CustoComprado(carteira, t), QtdComprada(carteira, t))
            /\ dados.lucros_realizados_total =
                   SeriesSum(Positivos(GanhosEsperados(carteira)))
            /\ dados.prejuizos_realizados_total =
                   SeriesSum(Negativos(GanhosEsperados(carteira)))

\* a ticker sold out at a gain next to a ticker still held
C25_Witness ==
    /\ Calculado
    /\ TickersMantidos(carteira) # {}
    /\ \E t \in Tickers \ TickersMantidos(carteira) :
          TemCompra(carteira, t) /\ QtdMantida(carteira, t) = 0
    /\ RGt(dados.lucros_realizados_total, R(0))

\* the replay loop has just applied a row of transacoes_df
PassouLinha == replay # Pendente /\ replay' # Pendente /\ replay'.i = replay.i + 1

\* the running average cost a Venda of the ticker would read now (line 1015)
PrecoMedioCorrente(e, ticker) == preco_medio_antes_venda(e, ticker, FDiv)

\* C21 (as claimed): in the replay the running average cost of a ticker is
\* changed only by a Compra.  A Venda takes quantity * (running average cost
\* before it) off the cumulative cost at every date from its own date on,
\* leaves the earlier dates alone, and leaves the running average cost that
\* the next transaction of the ticker reads as it was before the Venda, in
\* every ledger, oversold or not.
C21_VendaSoConsomeCustoMedio ==
    [][LET row == replay.transacoes_df[replay.i + 1]
           t == row.ticker
           antes == replay.e.custo_acumulado_df[t]
           depois == replay'.e.custo_acumulado_df[t]
           removido == FMul(R(row.quantidade), PrecoMedioCorrente(replay.e, t))
       IN  (PassouLinha /\ row.tipo = "Venda") =>
               /\ \A d \in DOMAIN antes :
                     depois[d] = IF d >= row.data_compra.dia
                                 THEN FSub(antes[d], removido) ELSE antes[d]
               /\ PrecoMedioCorrente(replay'.e, t) = PrecoMedioCorrente(replay.e, t)]_vars

\* the rows of transacoes_df the loop has applied so far
Replayed == SubSeq(replay.transacoes_df, 1, replay.i)

\* sum over the applied rows of ticker t dated on or before d, Compras
\* counted through c and Vendas through v
SomaAte(t, d, c(_), v(_)) ==
    SomaInt([j \in DOMAIN Replayed |->
        LET row == Replayed[j]
        IN  IF row.ticker = t /\ row.data_compra.dia <= d
            THEN (IF row.tipo = "Compra" THEN c(row) ELSE v(row))
            ELSE 0])

PosicaoAte(t, d) == SomaAte(t, d, LAMBDA row : row.quantidade, LAMBDA row : 0 - row.quantidade)

CustoCompradoAte(t, d) ==
    SomaAte(t, d, LAMBDA row : row.quantidade * row.preco_compra, LAMBDA row : 0)

SoComprasDe(t) == \A j \in DOMAIN Replayed : Replayed[j].ticker = t => Replayed[j].tipo = "Compra"

PrimeiroDia == MinDia({carteira[i].data_compra : i \in DOMAIN carteira})

\* the frames of the replay are step functions of the applied rows
PosicaoEmDegraus ==
    replay # Pendente =>
        \A t \in DOMAIN replay.e.posicao_df :
            /\ DOMAIN replay.e.posicao_df[t] = PrimeiroDia..Hoje
            /\ DOMAIN replay.e.custo_acumulado_df[t] = PrimeiroDia..Hoje
            /\ \A d \in PrimeiroDia..Hoje :
                  /\ replay.e.posicao_df[t][d] = R(PosicaoAte(t, d))
                  /\ SoComprasDe(t) =>
                         replay.e.custo_acumulado_df[t][d] = R(CustoCompradoAte(t, d))

\* the row just applied left every earlier date and every other ticker alone
DatasAnterioresIntactas ==
    PassouLinha =>
        LET row == replay.transacoes_df[replay.i + 1]
        IN  \A t \in DOMAIN replay.e.posicao_df : \A d \in DOMAIN replay.e.posicao_df[t] :
                (t # row.ticker \/ d < row.data_compra.dia) =>
                    /\ replay'.e.posicao_df[t][d] = replay.e.posicao_df[t][d]
                    /\ replay'.e.custo_acumulado_df[t][d] = replay.e.custo_acumulado_df[t][d]

TransacoesDoGrafico == OrdenarPorData(carregar_carteira_usuario(carteira, usuario_logado))

\* the prices of the ledger's tickers over [first date, today), forward filled
PrecosDoGrafico ==
    LET raw == yf_download(cotacoes, ColTickers(TransacoesDoGrafico), PrimeiroDia, Hoje)
    IN  [t \in DOMAIN raw |-> ffill(raw[t])]

\* evolucao_df before any row is dropped
EvolucaoCompleta == Evolucao(TransacoesDoGrafico, PrecosDoGrafico, PrimeiroDia, Hoje)

\* the dates from the first one with a non-zero value or cost onward
SemZerosIniciais(ev) ==
    LET naoZero == {d \in DOMAIN ev.Patrimonio :
                       ~REq(ev.Patrimonio[d], R(0)) \/ ~REq(ev.CustoTotal[d], R(0))}
    IN  IF naoZero = {} THEN {}
        ELSE {d \in DOMAIN ev.Patrimonio : d >= MinDia(naoZero)}

\* the chart got as far as the value and cost series
TemEvolucao ==
    /\ grafico # Pendente
    /\ carregar_carteira_usuario(carteira, usuario_logado) # <<>>
    /\ FrameIndex(PrecosDoGrafico) # {}

\* C23 (as claimed): of the combined value and cost series only the leading
\* run of dates on which both are exactly zero is dropped; every date from
\* the first with a non-zero value or cost onward is in the output, also the
\* later dates on which both are zero again and the dates on which their sum
\* is not positive.
C23_SoZerosIniciaisDescartados ==
    TemEvolucao =>
        LET datas == SemZerosIniciais(EvolucaoCompleta)
        IN  IF datas = {} THEN grafico = SemGrafico
            ELSE /\ grafico # SemGrafico
                 /\ DOMAIN grafico.evolucao_df.Patrimonio = datas
                 /\ \A d \in datas :
                       /\ grafico.evolucao_df.Patrimonio[d] = EvolucaoCompleta.Patrimonio[d]
                       /\ grafico.evolucao_df.CustoTotal[d] = EvolucaoCompleta.CustoTotal[d]

\* C24 (as claimed): the replay takes the transactions in date order and
\* those of one date in the order of the ledger: the frame the loop iterates
\* is the ledger sorted by date with ties in file order, so that the cost a
\* same-day Venda removes is the one ledger order gives.
C24_MesmoDiaEmOrdemDoLivro ==
    replay # Pendente =>
        replay.transacoes_df = sort_values(carregar_carteira_usuario(carteira, usuario_logado))

\* shares of the ticker of row k held when the loop reaches row k of df
AcoesNoReplay(df, k) ==
    SomaInt([j \in 1..(k - 1) |->
        IF df[j].ticker = df[k].ticker
        THEN (IF df[j].tipo = "Compra" THEN df[j].quantidade ELSE 0 - df[j].quantidade)
        ELSE 0])

\* row k of df is a Venda of more shares than are held when it is replayed
VendeADescoberto(df, k) ==
    df[k].tipo = "Venda" /\ df[k].quantidade > AcoesNoReplay(df, k)

SemDescobertoNoReplay == \A k \in DOMAIN replay.transacoes_df : ~VendeADescoberto(replay.transacoes_df, k)

ReplayCompleto == replay # Pendente /\ replay.i = Len(replay.transacoes_df)

\* the frame calcular_dados_carteira consolidates: the user's rows dated on
\* or before today
CarteiraAteHoje ==
    SelectSeq(carregar_carteira_usuario(carteira, usuario_logado),
              LAMBDA row : TsLe(row.data_compra, Timestamp(Hoje, 12, Nenhum)))

\* qtd_comprada - qtd_vendida as the floats compute it: each groupby sum
\* rounded to a float, then their difference
QuantidadeAtualFloat(t) ==
    LET cc == carteira_consolidada(CarteiraAteHoje)
    IN  FSub(Arredondar(cc[t].qtd_comprada), Arredondar(cc[t].qtd_vendida))

\* all the shares of t that changed hands
QtdNegociada(t) == R(QtdComprada(carteira, t) + QtdVendida(carteira, t))

\* x is not below zero by more than a few roundings of a quantity of the
\* size of escala: x >= -8 * 2^-Precisao * escala
QuaseNaoNegativo(x, escala) ==
    ~RLt(RMul(R(Pot2(Precisao)), x), RNeg(RMul(R(8), escala)))

\* positions, consolidated quantity and cumulative cost are not negative,
\* in the sense given by NaoNegativo
NadaNegativo(NaoNegativo(_, _)) ==
    /\ \A t \in DOMAIN replay.e.posicao_df : \A d \in DOMAIN replay.e.posicao_df[t] :
          /\ NaoNegativo(replay.e.posicao_df[t][d], QtdNegociada(t))
          /\ NaoNegativo(replay.e.custo_acumulado_df[t][d], R(CustoComprado(carteira, t)))
    /\ \A t \in DOMAIN carteira_consolidada(CarteiraAteHoje) :
          NaoNegativo(QuantidadeAtualFloat(t), QtdNegociada(t))

\* C26 (as claimed): when no Venda, in replay order, sells more than the
\* shares of its ticker held just before it, every position series and every
\* cumulative-cost series is >= 0 at every date and the consolidated quantity
\* held is >= 0; and as nothing enforces this, a ledger with such a Venda has
\* a negative position at that Venda's date.
C26_QuantidadeNaoNegativa ==
    ReplayCompleto =>
        /\ SemDescobertoNoReplay => NadaNegativo(LAMBDA x, escala : ~RLt(x, R(0)))
        /\ \A k \in DOMAIN replay.transacoes_df :
              VendeADescoberto(replay.transacoes_df, k) =>
                  RLt(replay.e.posicao_df[replay.transacoes_df[k].ticker]
                                         [replay.transacoes_df[k].data_compra.dia], R(0))

\* a row of the ticker and date of row k, replayed after it, buys shares
CompraDoMesmoDiaDepois(df, k) ==
    \E j \in (k + 1)..Len(df) :
        /\ df[j].ticker = df[k].ticker /\ df[j].tipo = "Compra"
        /\ df[j].data_compra.dia = df[k].data_compra.dia

\* C26 (amended): when no Venda oversells in replay order, positions,
\* consolidated quantity held and cumulative cost are >= 0 up to the rounding
\* of the floating-point operations.  Nothing enforces it: when the loop has
\* just applied an overselling Venda the position of its ticker is negative
\* from that Venda's date on, and in the finished replay it is negative at
\* that date unless a Compra of the same date is replayed after the Venda.
C26_NaoNegativaSemVendaADescoberto ==
    /\ ReplayCompleto =>
          /\ SemDescobertoNoReplay => NadaNegativo(QuaseNaoNegativo)
          /\ \A k \in DOMAIN replay.transacoes_df :
                (/\ VendeADescoberto(replay.transacoes_df, k)
                 /\ ~CompraDoMesmoDiaDepois(replay.transacoes_df, k)) =>
                    RLt(replay.e.posicao_df[replay.transacoes_df[k].ticker]
                                           [replay.transacoes_df[k].data_compra.dia], R(0))
    /\ (replay # Pendente /\ replay.i > 0) =>
          LET row == replay.transacoes_df[replay.i]
          IN  VendeADescoberto(replay.transacoes_df, replay.i) =>
                  \A d \in DOMAIN replay.e.posicao_df[row.ticker] :
                      d >= row.data_compra.dia =>
                          RLt(replay.e.posicao_df[row.ticker][d], R(0))

\* a finished replay of a ledger that never oversells, with a Venda in it
\* whose cost was taken off at a rounded average cost
C26_Witness ==
    /\ ReplayCompleto
    /\ SemDescobertoNoReplay
    /\ \E k \in DOMAIN replay.transacoes_df :
          /\ replay.transacoes_df[k].tipo = "Venda"
          /\ replay.removidos[k] #
                 RDiv(R(replay.transacoes_df[k].quantidade
                          * CustoComprado(carteira, replay.transacoes_df[k].ticker)),
                      R(QtdComprada(carteira, replay.transacoes_df[k].ticker)))

\* per ticker, no Compra is replayed after a Venda
ComprasAntesDasVendas ==
    \A j, k \in DOMAIN replay.transacoes_df :
        (/\ j < k
         /\ replay.transacoes_df[j].ticker = replay.transacoes_df[k].ticker
         /\ replay.transacoes_df[j].tipo = "Venda") => replay.transacoes_df[k].tipo = "Venda"

\* compras_agrupadas['preco_medio_ponderado'] as the floats compute it: the
\* sums are whole numbers, the quotient is rounded
PrecoMedioPonderadoFloat(t) ==
    Arredondar(compras_agrupadas(
        carregar_carteira_usuario(carteira, usuario_logado))[t].preco_medio_ponderado)

\* quantidade * preco_medio_ponderado of _calcular_lucro_prejuizo_realizado
CustoDaVendaNoResultado(row) ==
    FMul(R(row.quantidade), PrecoMedioPonderadoFloat(row.ticker))

\* quantidade_atual * preco_medio_ponderado ('Custo Total Posicao')
CustoDaPosicaoFloat(t) == FMul(R(QtdMantida(carteira, t)), PrecoMedioPonderadoFloat(t))

\* a and b differ by at most a few roundings of a quantity of the size of
\* escala: |a - b| <= 8 * 2^-Precisao * escala
ProximosNaEscala(a, b, escala) ==
    LET dif == RSub(a, b)
    IN  ~RGt(RMul(R(Pot2(Precisao)), IF dif[1] < 0 THEN RNeg(dif) ELSE dif),
             RMul(R(8), escala))

MesmoCustoMedio(Igual(_, _, _)) ==
    (ReplayCompleto /\ ComprasAntesDasVendas /\ SemDescobertoNoReplay) =>
        /\ \A k \in DOMAIN replay.transacoes_df :
              LET row == replay.transacoes_df[k]
              IN  row.tipo = "Venda" =>
                      Igual(replay.removidos[k], CustoDaVendaNoResultado(row),
                            R(CustoComprado(carteira, row.ticker)))
        /\ \A t \in DOMAIN replay.e.custo_acumulado_df :
              TemCompra(carteira, t) =>
                  Igual(replay.e.custo_acumulado_df[t][Hoje], CustoDaPosicaoFloat(t),
                        R(CustoComprado(carteira, t)))

\* C27 (as claimed): when, per ticker, every Compra is replayed before every
\* Venda and no Venda oversells, the cost the replay removes for each Venda
\* (quantity * running average) equals the cost the realized-result
\* computation removes for it (quantity * all-time weighted average), and
\* the final cumulative cost of each ticker equals quantity held * weighted
\* average cost.
C27_MesmoCustoMedio == MesmoCustoMedio(LAMBDA a, b, escala : a = b)

\* C27 (amended): under the same conditions the two costs removed, and the
\* final cumulative cost and quantity held * weighted average cost, agree up
\* to the rounding of the floating-point operations.
C27_MesmoCustoMedioAMenosDoArredondamento ==
    MesmoCustoMedio(LAMBDA a, b, escala : ProximosNaEscala(a, b, escala))

\* two Compras at different prices and then a Venda of part of the shares:
\* the cost left by the replay is not the float quantity held * average cost
C27_Witness ==
    /\ ReplayCompleto /\ ComprasAntesDasVendas /\ SemDescobertoNoReplay
    /\ \E t \in DOMAIN replay.e.custo_acumulado_df :
          /\ QtdVendida(carteira, t) > 0
          /\ QtdMantida(carteira, t) > 0
          /\ replay.e.custo_acumulado_df[t][Hoje] # CustoDaPosicaoFloat(t)

QuantidadesConcordam(Igual(_, _, _)) ==
    (ReplayCompleto /\ \A i \in DOMAIN carteira : carteira[i].data_compra <= Hoje) =>
        LET cc == carteira_consolidada(CarteiraAteHoje)
        IN  /\ DOMAIN cc = DOMAIN replay.e.posicao_df
            /\ \A t \in DOMAIN cc :
                  /\ Hoje \in DOMAIN replay.e.posicao_df[t]
                  /\ Igual(replay.e.posicao_df[t][Hoje], QuantidadeAtualFloat(t),
                           QtdNegociada(t))

\* C28 (as claimed): replay and consolidation agree on the quantities.  For a
\* ledger whose rows are all dated on or before today and for every ticker,
\* the replayed position on the last calendar day of the range equals the
\* consolidated qtd_comprada - qtd_vendida.
C28_ReplayEConsolidacaoConcordam == QuantidadesConcordam(LAMBDA a, b, escala : a = b)

\* C28 (amended): the replayed position on the last day and the consolidated
\* qtd_comprada - qtd_vendida agree up to the rounding of the floating-point
\* additions and subtractions, which the two computations do in different
\* orders.
C28_ConcordamAMenosDoArredondamento ==
    QuantidadesConcordam(LAMBDA a, b, escala : ProximosNaEscala(a, b, escala))

\* a ledger without oversell whose replayed position and consolidated
\* quantity are different floats
C28_Witness ==
    /\ ReplayCompleto
    /\ SemDescobertoNoReplay
    /\ QtdVendida(carteira, "A") > 0
    /\ replay.e.posicao_df["A"][Hoje] # QuantidadeAtualFloat("A")

----------------------------------------------------------------------------
(* Two sessions adding a transaction at the same time.  Streamlit runs   *)
(* each session's script in a thread of its own; adicionar_ativo_carteira *)
(* takes no lock, so the steps of two calls interleave at its file       *)
(* operations: os.path.exists, the to_csv of the empty frame, read_csv   *)
(* and the final to_csv.                                                 *)

\* the most rows carteira.csv holds before the two sessions submit
MaxArquivo == 1

Sessoes == {1, 2}

\* what the add form accepts: a ticker the validation finds, quantity > 0,
\* price > 0, a date up to today
LinhasDoFormulario ==
    {adicionar_ativo_carteira(<<>>, u, t, 1, 10, d, tipo)[1] :
        u \in Usuarios, t \in Tickers, d \in {1}, tipo \in Tipos}

ArquivosIniciais == UNION {[1..n -> LinhasDoFormulario] : n \in 0..MaxArquivo}

\* st.form_submit_button with valid fields: the session enters
\* adicionar_ativo_carteira with the row of its form
SubmeterFormulario(s) ==
    /\ sessoes.s[s].pc = "formulario"
    /\ \E novo_ativo \in LinhasDoFormulario :
          sessoes' = [sessoes EXCEPT !.s[s].pc = "exists",
                                     !.s[s].novo_ativo = <<novo_ativo>>]
    /\ UNCHANGED <<carteira, Feeds, dados, grafico, efeitos, amostra, replay, alertas>>

\* if not os.path.exists(CARTEIRA_FILE)
VerificarArquivo(s) ==
    /\ sessoes.s[s].pc = "exists"
    /\ sessoes' = [sessoes EXCEPT !.s[s].pc = IF sessoes.existe THEN "read_csv"
                                                               ELSE "criar"]
    /\ UNCHANGED <<carteira, Feeds, dados, grafico, efeitos, amostra, replay, alertas>>

\* pd.DataFrame(columns=[...]).to_csv(CARTEIRA_FILE): the file is replaced by
\* one without rows
CriarArquivo(s) ==
    /\ sessoes.s[s].pc = "criar"
    /\ carteira' = <<>>
    /\ sessoes' = [sessoes EXCEPT !.existe = TRUE, !.s[s].pc = "read_csv"]
    /\ UNCHANGED <<Feeds, dados, grafico, efeitos, amostra, replay, alertas>>

\* df = pd.read_csv(CARTEIRA_FILE)
LerArquivo(s) ==
    /\ sessoes.s[s].pc = "read_csv"
    /\ sessoes' = [sessoes EXCEPT !.s[s].pc = "to_csv", !.s[s].df = carteira]
    /\ UNCHANGED <<carteira, Feeds, dados, grafico, efeitos, amostra, replay, alertas>>

\* df = pd.concat([df, novo_ativo]); df.to_csv(CARTEIRA_FILE); return True
GravarArquivo(s) ==
    /\ sessoes.s[s].pc = "to_csv"
    /\ LET row == sessoes.s[s].novo_ativo[1]
       IN  carteira' = adicionar_ativo_carteira(sessoes.s[s].df, row.email_usuario,
                                                row.ticker, row.quantidade,
                                                row.preco_compra, row.data_compra,
                                                row.tipo)
    /\ sessoes' = [sessoes EXCEPT !.existe = TRUE, !.s[s].pc = "return"]
    /\ UNCHANGED <<Feeds, dados, grafico, efeitos, amostra, replay, alertas>>

InitConcorrencia ==
    /\ \E existe \in BOOLEAN :
          /\ carteira \in (IF existe THEN ArquivosIniciais ELSE {<<>>})
          /\ sessoes = [existe |-> existe,
                        antes |-> carteira,
                        s |-> [s \in Sessoes |-> [pc |-> "formulario",
                                                  novo_ativo |-> <<>>,
                                                  df |-> <<>>]]]
    /\ dados = Pendente
    /\ grafico = Pendente
    /\ efeitos = {}
    /\ amostra = Pendente
    /\ replay = Pendente
    /\ alertas = <<>>
    /\ dividendos = FeedDividendosFixo
    /\ precoAtual = FeedPrecoAtualFixo
    /\ cotacoes = CotacoesFixas
    /\ cdi = TaxasCDI("todos")
    /\ desempate \in Desempates

NextConcorrencia ==
    \/ \E s \in Sessoes : SubmeterFormulario(s)
    \/ \E s \in Sessoes : VerificarArquivo(s)
    \/ \E s \in Sessoes : CriarArquivo(s)
    \/ \E s \in Sessoes : LerArquivo(s)
    \/ \E s \in Sessoes : GravarArquivo(s)

SpecConcorrencia == InitConcorrencia /\ [][NextConcorrencia]_vars

\* how many rows of df equal row
Ocorrencias(df, row) == Cardinality({i \in DOMAIN df : df[i] = row})

\* C29: once both sessions have returned from adicionar_ativo_carteira, the
\* ledger file holds every row it held before and the new row of each
\* session, whatever the interleaving of their steps.
C29_NenhumaTransacaoPerdida ==
    (\A s \in Sessoes : sessoes.s[s].pc = "return") =>
        LET esperado == sessoes.antes \o sessoes.s[1].novo_ativo \o sessoes.s[2].novo_ativo
        IN  \A i \in DOMAIN esperado :
                Ocorrencias(carteira, esperado[i]) >= Ocorrencias(esperado, esperado[i])

----------------------------------------------------------------------------
(* Price alerts: alertas.csv holds one row per (owner, ticker) with the  *)
(* target price and the status 'ativo' or 'enviado'.  Every run of the   *)
(* portfolio page or of the dashboard computes the portfolio and then    *)
(* calls verificar_e_enviar_alertas; the "Salvar" button next to a held  *)
(* ticker calls salvar_alerta.  The handlers run one after the other.    *)

\* the most rows the ledger holds under SpecAlertas
MaxTxAlertas == 4

\* the target prices typed into "Preco Alvo": 0 removes the alert
PrecosAlvo == {0, 20}

OrdensAlertas == {<<1, 10, 1>>}

\* what obter_preco_atual_cached may return at a run of the page
FeedsPrecoAlertas ==
    {[t \in Tickers |-> IF t = "A" THEN R(a) ELSE b] : a \in {10, 20}, b \in {R(20), NaN}}

\* the positions of the file that hold the alert of the owner for the ticker
\* ((df['email_usuario'] == email_usuario) & (df['ticker'] == ticker))
filtro(df, email_usuario, ticker) ==
    {i \in DOMAIN df : df[i].email_usuario = email_usuario /\ df[i].ticker = ticker}

\* carregar_alertas_usuario: the rows of the owner (none without a file)
carregar_alertas_usuario(arquivo, email_usuario) ==
    SelectSeq(arquivo, LAMBDA row : row.email_usuario = email_usuario)

\* salvar_alerta: with a positive target the first row of the owner and
\* ticker gets the target and the status 'ativo', or such a row is appended;
\* otherwise the rows of the owner and ticker are dropped
salvar_alerta(df, email_usuario, ticker, preco_alvo) ==
    LET alerta_existente == filtro(df, email_usuario, ticker)
        primeiro == CHOOSE i \in alerta_existente : \A j \in alerta_existente : i <= j
    IN  IF preco_alvo > 0
        THEN IF alerta_existente # {}
             THEN [df EXCEPT ![primeiro].preco_alvo = preco_alvo,
                             ![primeiro].status = "ativo"]
             ELSE Append(df, [email_usuario |-> email_usuario, ticker |-> ticker,
                              preco_alvo |-> preco_alvo, status |-> "ativo"])
        ELSE SelectSeq(df, LAMBDA row : ~(row.email_usuario = email_usuario
                                          /\ row.ticker = ticker))

\* the st.toast of salvar_alerta
ToastDeSalvar(df, email_usuario, ticker, preco_alvo) ==
    IF preco_alvo > 0 THEN {Efeito("st.toast: alerta salvo", {ticker})}
    ELSE IF filtro(df, email_usuario, ticker) # {}
         THEN {Efeito("st.toast: alerta removido", {ticker})}
         ELSE {}

\* the rows of merged_df that pass the test of the loop: active alerts of the
\* user, of a ticker of posicao_atual_df, whose 'Preco Atual' is a number
\* at or above the target
merged_df(arquivo, email_usuario, dados_carteira) ==
    IF dados_carteira.erro # Nenhum THEN <<>>
    ELSE LET alertas_ativos == SelectSeq(carregar_alertas_usuario(arquivo, email_usuario),
                                         LAMBDA row : row.status = "ativo")
             posicao == dados_carteira.posicao_atual_df
         IN  SelectSeq(alertas_ativos,
                 LAMBDA row : /\ row.ticker \in DOMAIN posicao
                              /\ ~IsNaN(posicao[row.ticker].PrecoAtual)
                              /\ ~RLt(posicao[row.ticker].PrecoAtual, R(row.preco_alvo)))

\* variant: a successful e-mail leaves the file as it is
marcar_enviado_sem_gravar(df_geral, email_usuario, tickers) == df_geral

\* df_geral.loc[(email_usuario == ...) & (ticker == ...), 'status'] = 'enviado'
\* for every ticker whose e-mail went out
marcar_enviado(df_geral, email_usuario, tickers) ==
    [i \in DOMAIN df_geral |->
        IF df_geral[i].email_usuario = email_usuario /\ df_geral[i].ticker \in tickers
        THEN [df_geral[i] EXCEPT !.status = "enviado"]
        ELSE df_geral[i]]

\* verificar_e_enviar_alertas: one enviar_email per row of merged_df; sucesso
\* is the set of tickers for which enviar_email returned True
verificar_e_enviar_alertas(arquivo, email_usuario, dados_carteira, sucesso) ==
    LET m == merged_df(arquivo, email_usuario, dados_carteira)
        enviados == {m[i].ticker : i \in DOMAIN m}
    IN  [arquivo |-> marcar_enviado(arquivo, email_usuario, enviados \cap sucesso),
         efeitos |-> {Efeito("enviar_email", {t}) : t \in enviados}
                     \cup {Efeito("st.toast: e-mail enviado", {t}) : t \in enviados \cap sucesso}]

\* a run of pagina_carteira or of the dashboard by the logged-in user:
\* calcular_dados_carteira on the prices of the moment, then
\* verificar_e_enviar_alertas
PaginaCarteira ==
    /\ dados = Pendente
    /\ \E feed \in FeedsPrecoAlertas, sucesso \in SUBSET Tickers :
          LET dados_carteira == calcular_dados_carteira(carteira, usuario_logado,
                                                        dividendos, feed)
              v == verificar_e_enviar_alertas(alertas, usuario_logado,
                                              dados_carteira, sucesso)
          IN  /\ precoAtual' = feed
              /\ dados' = dados_carteira
              /\ alertas' = v.arquivo
              /\ efeitos' = EfeitosDeCalcular(carteira, usuario_logado, feed) \cup v.efeitos
    /\ UNCHANGED <<carteira, dividendos, cotacoes, cdi, desempate, grafico, amostra,
                   replay, sessoes>>

\* the "Salvar" button of a row of the holdings table (of any user's
\* session): salvar_alerta, then st.rerun()
SalvarAlerta ==
    /\ \E email_usuario \in Usuarios, preco_alvo \in PrecosAlvo :
          LET lido == carregar_carteira_usuario(carteira, email_usuario)
              carteira_df == SelectSeq(lido,
                  LAMBDA row : TsLe(row.data_compra, Timestamp(Hoje, 12, Nenhum)))
          IN  \E ticker \in DOMAIN posicao_atual_df(carteira_df) :
                 /\ alertas' = salvar_alerta(alertas, email_usuario, ticker, preco_alvo)
                 /\ IF email_usuario = usuario_logado
                    THEN /\ dados' = Pendente
                         /\ grafico' = Pendente
                         /\ efeitos' = ToastDeSalvar(alertas, email_usuario, ticker, preco_alvo)
                    ELSE UNCHANGED <<dados, grafico, efeitos>>
    /\ UNCHANGED <<carteira, Feeds, amostra, replay, sessoes>>

\* any other interaction of the user with the page: Streamlit runs the
\* script again from the top
Recarregar ==
    /\ dados # Pendente
    /\ dados' = Pendente
    /\ grafico' = Pendente
    /\ efeitos' = {}
    /\ UNCHANGED <<carteira, Feeds, amostra, replay, sessoes, alertas>>

AdicionarAtivoAlertas ==
    AdicionarAtivoDe({usuario_logado}, {"A"}, OrdensAlertas, MaxTxAlertas)

\* ana holds A and B, bia holds B
CarteiraDosAlertas ==
    adicionar_ativo_carteira(
        adicionar_ativo_carteira(
            adicionar_ativo_carteira(<<>>, "ana", "A", 1, 10, 1, "Compra"),
            "ana", "B", 1, 10, 1, "Compra"),
        "bia", "B", 1, 10, 1, "Compra")

InitAlertas ==
    /\ carteira = CarteiraDosAlertas
    /\ dados = Pendente
    /\ grafico = Pendente
    /\ efeitos = {}
    /\ amostra = Pendente
    /\ replay = Pendente
    /\ sessoes = Pendente
    /\ alertas = <<>>
    /\ dividendos = FeedDividendosFixo
    /\ precoAtual = FeedPrecoAtualFixo
    /\ cotacoes = CotacoesFixas
    /\ cdi = TaxasCDI("todos")
    /\ desempate = "ordem do arquivo"

NextAlertas == PaginaCarteira \/ SalvarAlerta \/ Recarregar \/ AdicionarAtivoAlertas

SpecAlertas == InitAlertas /\ [][NextAlertas]_vars

\* the statuses of the rows of the owner and ticker in the file
StatusDe(arquivo, email_usuario, ticker) ==
    {arquivo[i].status : i \in filtro(arquivo, email_usuario, ticker)}

\* the step is a run of verificar_e_enviar_alertas that e-mails the logged-in
\* user about the ticker
EnviaEmail(ticker) ==
    dados = Pendente /\ dados' # Pendente /\ Efeito("enviar_email", {ticker}) \in efeitos'

\* ... and enviar_email returned True
EmailEnviadoComSucesso(ticker) ==
    EnviaEmail(ticker) /\ Efeito("st.toast: e-mail enviado", {ticker}) \in efeitos'

\* the step is a salvar_alerta of the logged-in user with a positive target
SalvaAlerta(ticker) ==
    dados' = Pendente /\ Efeito("st.toast: alerta salvo", {ticker}) \in efeitos'

AlertaDaVez(ticker) ==
    \A i \in filtro(alertas, usuario_logado, ticker) :
        /\ alertas[i].status = "ativo"
        /\ dados'.erro = Nenhum
        /\ ticker \in DOMAIN dados'.posicao_atual_df
        /\ ~IsNaN(precoAtual'[ticker])
        /\ ~RLt(precoAtual'[ticker], R(alertas[i].preco_alvo))

DisparaUmaVezPorAtivacao ==
    \A ticker \in Tickers :
        /\ EnviaEmail(ticker) =>
              /\ filtro(alertas, usuario_logado, ticker) # {}
              /\ AlertaDaVez(ticker)
        /\ EmailEnviadoComSucesso(ticker) =>
              StatusDe(alertas', usuario_logado, ticker) = {"enviado"}
        /\ (EnviaEmail(ticker) /\ ~EmailEnviadoComSucesso(ticker)) =>
              StatusDe(alertas', usuario_logado, ticker) = {"ativo"}
        /\ "enviado" \in StatusDe(alertas, usuario_logado, ticker) =>
              /\ ~EnviaEmail(ticker)
              /\ "ativo" \in StatusDe(alertas', usuario_logado, ticker) => SalvaAlerta(ticker)
        /\ (dados = Pendente /\ dados' # Pendente) =>
              SelectSeq(alertas', LAMBDA row : row.email_usuario # usuario_logado)
                  = SelectSeq(alertas, LAMBDA row : row.email_usuario # usuario_logado)

\* C30: an alert is e-mailed only while its status is 'ativo' and the current
\* price is at or above its target; a successful e-mail leaves its status
\* 'enviado', a failed one leaves it 'ativo'; while the status is 'enviado'
\* no run e-mails it again, and only salvar_alerta sets it back to 'ativo'.
\* The file never holds two rows of one owner and ticker.
C30_AlertaDisparaUmaVezPorAtivacao ==
    /\ [][DisparaUmaVezPorAtivacao]_vars
    /\ [](\A u \in Usuarios, t \in Tickers : Cardinality(filtro(alertas, u, t)) <= 1)

\* a run of the page after a successful e-mail: the alert of A is 'enviado',
\* A is held at a price at or above the target, and no e-mail went out
C30_Witness ==
    /\ dados # Pendente
    /\ dados.erro = Nenhum
    /\ "A" \in DOMAIN dados.posicao_atual_df
    /\ \E i \in filtro(alertas, usuario_logado, "A") :
          /\ alertas[i].status = "enviado"
          /\ ~RLt(dados.posicao_atual_df["A"].PrecoAtual, R(alertas[i].preco_alvo))
    /\ Efeito("obter_preco_atual_cached", {"A"}) \in efeitos
    /\ Efeito("enviar_email", {"A"}) \notin efeitos
    /\ \E i \in filtro(alertas, "bia", "B") : alertas[i].status = "ativo"

====
